---- MODULE Spec2Model ----
(***************************************************************************)
(* A model of the miniterms runner game core: the sprite / pixel collision *)
(* engine (image.rs, math.rs), the jump parabola (games/utils.rs), the     *)
(* key state (input.rs), the solution ring buffer and its generator        *)
(* (solution.rs) and the T-Rex game simulation (games/trex.rs).            *)
(***************************************************************************)
EXTENDS Integers, Naturals, Sequences, FiniteSets, TLC

VARIABLES
    a, b,           \* the two sprites of a collision query (image.rs test::sprite_collision)
    collided,       \* Option of [ab, ba]: a.collide(&b) and b.collide(&a)
    sprite,         \* the sprite of a bounding_box query (image.rs test::bounding_box)
    bbox,           \* Option of the Rect returned by sprite.bounding_box()
    parabola,       \* a Parabola (games/utils.rs)
    trace,          \* value() observed after construction and after every step()
    keys,           \* a Keys value (input.rs)
    last,           \* the last Keys operation: [op, key, before]
    solution,       \* a Solution (solution.rs)
    produced,       \* every Keys value the solution's generator has returned, in order
    lookup,         \* the last Solution::keys(time) call: [time, result, before]
    before_update,  \* the Solution as it was when the last Solution::update() began
    runs,           \* the Apps (main.rs) running side by side, one per run
    alike,          \* the games of the two runs were given the same keys and canvas sizes so far
    trexgame,       \* Option of a TRexGame (games/trex.rs) updated on its own
    ctx,            \* Option of the GameContext given to the last TRexGame::update
    logged,         \* the lines the last TRexGame::update pushed to LOG
    born,           \* per obstacle of trexgame's queue: [tick, edge] of its spawn
    ticked,         \* how many times TRexGame::update was called on trexgame
    curve,          \* Option of a Parabola whose step() may fail
    outcome,        \* Option of what the last step() of curve ended in
    solgen,         \* Option of a SolutionGenerator (solution.rs) called on its own
    calls,          \* the number of next() calls made on solgen
    dino,           \* Option of a TRex (trex.rs) updated on its own
    fed,            \* Option of the Keys the last update() of dino was given
    since,          \* the updates of dino made after the one that began its jump
    replay,         \* Option of an App (main.rs) ticking with nobody at the keys
    foreseen,       \* what trex_solution(solution, k) returned in replay: [tick, k, value]
    live,           \* Option of an App (main.rs) in the loop of App::run
    taps,           \* what the key events did to each key since the last tick and before it
    world,          \* Option of a TRexGame (trex.rs) whose spawns are watched
    last_spawn,     \* Option of the tick and the viewport width of the latest spawn of world
    placed,         \* Option of a Sprite (image.rs) with the origin and size of a canvas
    clipped,        \* Option of what Sprite::rect returned for placed
    twins           \* Option of two TRexGames (trex.rs) run side by side on the same viewports

spriteVars   == <<a, b, collided>>
boxVars      == <<sprite, bbox>>
parabolaVars == <<parabola, trace>>
keysVars     == <<keys, last>>
solutionVars == <<solution, produced, lookup, before_update>>
runsVars     == <<runs, alike>>
gameVars     == <<trexgame, ctx, logged, born, ticked>>
curveVars    == <<curve, outcome>>
generatorVars == <<solgen, calls>>
trexVars     == <<dino, fed, since>>
replayVars   == <<replay, foreseen>>
loopVars     == <<live, taps>>
spawnsVars   == <<world, last_spawn>>
rectVars     == <<placed, clipped>>
twinVars     == <<twins>>
vars ==
    <<spriteVars, boxVars, parabolaVars, keysVars, solutionVars, runsVars, gameVars, trexVars, generatorVars, replayVars, curveVars, loopVars, spawnsVars, rectVars, twinVars>>

(***************************************************************************)
(* Bounds of the model.                                                    *)
(***************************************************************************)
MaxWidth    == 2    \* declared image widths are 1..MaxWidth
MaxHeight   == 2    \* images have 1..MaxHeight rows
MaxCoord    == 2    \* sprite anchors lie in -MaxCoord..MaxCoord on both axes
BoxMaxWidth == 4    \* image widths of a bounding_box query
BoxMaxCoord == 3    \* anchors of a bounding_box query
MaxPeak     == 25   \* Parabola::new(max, _) with max in 0..MaxPeak
MaxDuration == 22   \* Parabola::new(_, duration) with duration in 1..MaxDuration
MaxOverrun  == 2    \* step() is called up to duration + MaxOverrun times
MaxUpdates  == 3    \* Solution::update() is called up to MaxUpdates times from each start of StartUpdates
MaxBeyond   == 1    \* Solution::keys(time) is asked up to capacity + MaxBeyond
MaxTicks    == 11   \* App::ui runs up to MaxTicks times
MaxApart    == 1    \* the runs get key events of their own in the last MaxApart ticks
MaxShort    == 2    \* curves with a duration of 0..MaxShort are stepped with their failure
MaxCalls    == 56   \* SolutionGenerator::next is called up to MaxCalls times on its own
MaxPlay     == 26   \* TRexGame::update is called up to MaxPlay times with a player
MaxMirror   == 24   \* TRexGame::update is called up to MaxMirror times with the solution's keys
MaxReplay   == 2    \* trex_solution is asked in the first MaxReplay ticks of a replay
MaxLoop     == 4    \* App::ui is called up to MaxLoop times in the loop of App::run
MaxTwin     == 12
MaxDrain    == 124
MaxWait     == 2
MaxHeights  == 24
MaxReach    == 16   \* obstacles are compared and drawn at x in -MaxReach..MaxReach
MaxFrames   == 116  \* TRexGame::update runs up to MaxFrames times when nobody plays

(***************************************************************************)
(* Option<T>: None is the empty sequence, Some(v) the one-element sequence. *)
(***************************************************************************)
None == <<>>
Some(v) == <<v>>

(***************************************************************************)
(* u32 / u8 bit operations.                                                *)
(***************************************************************************)
RECURSIVE BitAnd(_, _)
BitAnd(m, n) ==
    IF m = 0 \/ n = 0 THEN 0
    ELSE ((m % 2) * (n % 2)) + 2 * BitAnd(m \div 2, n \div 2)

RECURSIVE BitOr(_, _)
BitOr(m, n) ==
    IF m = 0 THEN n
    ELSE IF n = 0 THEN m
    ELSE (IF (m % 2) + (n % 2) > 0 THEN 1 ELSE 0) + 2 * BitOr(m \div 2, n \div 2)

ShiftRight(v, n) == v \div (2 ^ n)

RECURSIVE BitCount(_)
BitCount(m) == IF m = 0 THEN 0 ELSE (m % 2) + BitCount(m \div 2)

Max2(x, y) == IF x >= y THEN x ELSE y
Min2(x, y) == IF x <= y THEN x ELSE y

(***************************************************************************)
(* math.rs: Pos, Line, Rect.                                               *)
(***************************************************************************)
Pos_new(x, y) == [x |-> x, y |-> y]

Line_new(start, end) == [start |-> start, end |-> end]

Line_range(line) == line.start .. (line.end - 1)

Line_new_checked(start, end) ==
    IF start >= end THEN None ELSE Some([start |-> start, end |-> end])

Line_intersect(self, other) ==
    LET start == Max2(self.start, other.start)
        end   == Min2(self.end, other.end)
    IN  Line_new_checked(start, end)

Line_translate(self, amount) ==
    [start |-> self.start + amount, end |-> self.end + amount]

Rect_intersect(self, other) ==
    LET x == Line_intersect(self.x, other.x)
        y == Line_intersect(self.y, other.y)
    IN  IF x = None THEN None
        ELSE IF y = None THEN None
        ELSE Some([x |-> x[1], y |-> y[1]])

(***************************************************************************)
(* image.rs: Image, Sprite, bounding_box, collide.                         *)
(***************************************************************************)
Image_width(image) == image.width
Image_height(image) == Len(image.pixels)

bounding_box_no_anchor(self) ==
    LET x == self.position.x
        y == self.position.y
        width  == Image_width(self.image)
        height == Image_height(self.image)
    IN  [x |-> IF self.origin.x = "Min" THEN Line_new(x, x + width)
               ELSE Line_new(x - width, x),
         y |-> IF self.origin.y = "Min" THEN Line_new(y, y + height)
               ELSE Line_new(y - height, y)]

bounding_box(self) ==
    LET x == self.position.x
        y == self.position.y
        width  == Image_width(self.image)
        height == Image_height(self.image)
    IN  [x |-> IF self.origin.x = "Min" THEN Line_new(x, x + width)
               ELSE Line_new(x - width + 1, x + 1),
         y |-> IF self.origin.y = "Min" THEN Line_new(y, y + height)
               ELSE Line_new(y - height + 1, y + 1)]

\* collide() answering from the bounding boxes alone
collide_boxes_only(self, other) ==
    Rect_intersect(bounding_box(self), bounding_box(other)) # None

\* collide() comparing the rows of the two images without placing them
collide_unplaced(self, other) ==
    \E y \in 1 .. Min2(Image_height(self.image), Image_height(other.image)) :
        BitAnd(self.image.pixels[y], other.image.pixels[y]) # 0

collide_shift_self_only(self, other) ==
    LET box_a == bounding_box(self)
        box_b == bounding_box(other)
        intersection == Rect_intersect(box_a, box_b)
    IN  IF intersection = None THEN FALSE
        ELSE \E y \in Line_range(intersection[1].y) :
                LET row_a == self.image.pixels[(y - box_a.y.start) + 1]
                    row_b == other.image.pixels[(y - box_b.y.start) + 1]
                    shifted_a == IF box_a.x.start < box_b.x.start
                                 THEN ShiftRight(row_a, box_b.x.start - box_a.x.start)
                                 ELSE row_a
                IN  BitAnd(shifted_a, row_b) # 0

collide(self, other) ==
    LET box_a == bounding_box(self)
        box_b == bounding_box(other)
        intersection == Rect_intersect(box_a, box_b)
    IN  IF intersection = None THEN FALSE
        ELSE \E y \in Line_range(intersection[1].y) :
                LET row_a == self.image.pixels[(y - box_a.y.start) + 1]
                    row_b == other.image.pixels[(y - box_b.y.start) + 1]
                    shifted_a == IF box_a.x.start < box_b.x.start
                                 THEN ShiftRight(row_a, box_b.x.start - box_a.x.start)
                                 ELSE row_a
                    shifted_b == IF box_a.x.start < box_b.x.start
                                 THEN row_b
                                 ELSE ShiftRight(row_b, box_a.x.start - box_b.x.start)
                IN  BitAnd(shifted_a, shifted_b) # 0

(***************************************************************************)
(* Inputs of the collision queries.  A row is a u32 whose set bits lie in   *)
(* the columns below the declared width, as in every Image of the program. *)
(***************************************************************************)
Origins == {"Min", "Max"}

RECURSIVE SeqSum(_)
SeqSum(s) == IF s = <<>> THEN 0 ELSE s[1] + SeqSum(Tail(s))

PixelRows(h, bits) == [1..h -> 0 .. (2 ^ bits - 1)]

SetBits(pixels) == SeqSum([i \in 1..Len(pixels) |-> BitCount(pixels[i])])

\* images with no pixel, one pixel or every pixel set
CollisionImages ==
    UNION { { [pixels |-> p, width |-> w] :
                p \in { q \in UNION { PixelRows(h, w) : h \in 1..MaxHeight } :
                            SetBits(q) <= 1 \/ SetBits(q) = w * Len(q) } } : w \in 1..MaxWidth }

Coords == (0 - MaxCoord) .. MaxCoord

\* sprite a is anchored at one of two places, sprite b anywhere around them
AnchorsA == { Pos_new(0, 0), Pos_new(-1, 1) }

CollisionSpritesA ==
    [image : CollisionImages,
     position : AnchorsA,
     origin : [x : Origins, y : Origins]]

CollisionSprites ==
    [image : CollisionImages,
     position : [x : Coords, y : Coords],
     origin : [x : Origins, y : Origins]]

BoxCoords == (0 - BoxMaxCoord) .. BoxMaxCoord

BoxSprites ==
    [image : { [pixels |-> [i \in 1..h |-> 0], width |-> w] :
                    w \in 1..BoxMaxWidth, h \in 1..MaxHeight },
     position : [x : BoxCoords, y : BoxCoords],
     origin : [x : Origins, y : Origins]]

SpriteIdle == a = None /\ b = None /\ collided = None
BoxIdle == sprite = None /\ bbox = None
ParabolaIdle == parabola = None /\ trace = <<>>
KeysIdle == keys = None /\ last = None
SolutionIdle ==
    solution = None /\ produced = <<>> /\ lookup = None /\ before_update = None

RunsIdle == runs = <<>> /\ alike = TRUE
CurveIdle == curve = None /\ outcome = None
GeneratorIdle == solgen = None /\ calls = 0
TRexIdle == dino = None /\ fed = None /\ since = 0
ReplayIdle == replay = None /\ foreseen = <<>>
LoopIdle == live = None /\ taps = <<>>
SpawnsIdle == world = None /\ last_spawn = None
TwinIdle == twins = None
RectIdle == placed = None /\ clipped = None
GameIdle ==
    trexgame = None /\ ctx = None /\ logged = <<>> /\ born = <<>> /\ ticked = 0

\* what a specification leaves idle and unchanged: every other component
IdleExceptSprite ==
    BoxIdle /\ ParabolaIdle /\ KeysIdle /\ SolutionIdle /\ RunsIdle /\ GameIdle /\ TRexIdle /\ GeneratorIdle /\ ReplayIdle /\ CurveIdle /\ LoopIdle /\ SpawnsIdle /\ RectIdle /\ TwinIdle
varsExceptSprite ==
    <<boxVars, parabolaVars, keysVars, solutionVars, runsVars, gameVars, trexVars, generatorVars, replayVars, curveVars, loopVars, spawnsVars, rectVars, twinVars>>
IdleExceptBox ==
    SpriteIdle /\ ParabolaIdle /\ KeysIdle /\ SolutionIdle /\ RunsIdle /\ GameIdle /\ TRexIdle /\ GeneratorIdle /\ ReplayIdle /\ CurveIdle /\ LoopIdle /\ SpawnsIdle /\ RectIdle /\ TwinIdle
varsExceptBox ==
    <<spriteVars, parabolaVars, keysVars, solutionVars, runsVars, gameVars, trexVars, generatorVars, replayVars, curveVars, loopVars, spawnsVars, rectVars, twinVars>>
IdleExceptParabola ==
    SpriteIdle /\ BoxIdle /\ KeysIdle /\ SolutionIdle /\ RunsIdle /\ GameIdle /\ TRexIdle /\ GeneratorIdle /\ ReplayIdle /\ CurveIdle /\ LoopIdle /\ SpawnsIdle /\ RectIdle /\ TwinIdle
varsExceptParabola ==
    <<spriteVars, boxVars, keysVars, solutionVars, runsVars, gameVars, trexVars, generatorVars, replayVars, curveVars, loopVars, spawnsVars, rectVars, twinVars>>
IdleExceptKeys ==
    SpriteIdle /\ BoxIdle /\ ParabolaIdle /\ SolutionIdle /\ RunsIdle /\ GameIdle /\ TRexIdle /\ GeneratorIdle /\ ReplayIdle /\ CurveIdle /\ LoopIdle /\ SpawnsIdle /\ RectIdle /\ TwinIdle
varsExceptKeys ==
    <<spriteVars, boxVars, parabolaVars, solutionVars, runsVars, gameVars, trexVars, generatorVars, replayVars, curveVars, loopVars, spawnsVars, rectVars, twinVars>>
IdleExceptSolution ==
    SpriteIdle /\ BoxIdle /\ ParabolaIdle /\ KeysIdle /\ RunsIdle /\ GameIdle /\ TRexIdle /\ GeneratorIdle /\ ReplayIdle /\ CurveIdle /\ LoopIdle /\ SpawnsIdle /\ RectIdle /\ TwinIdle
varsExceptSolution ==
    <<spriteVars, boxVars, parabolaVars, keysVars, runsVars, gameVars, trexVars, generatorVars, replayVars, curveVars, loopVars, spawnsVars, rectVars, twinVars>>
IdleExceptRuns ==
    SpriteIdle /\ BoxIdle /\ ParabolaIdle /\ KeysIdle /\ SolutionIdle /\ GameIdle /\ TRexIdle /\ GeneratorIdle /\ ReplayIdle /\ CurveIdle /\ LoopIdle /\ SpawnsIdle /\ RectIdle /\ TwinIdle
varsExceptRuns ==
    <<spriteVars, boxVars, parabolaVars, keysVars, solutionVars, gameVars, trexVars, generatorVars, replayVars, curveVars, loopVars, spawnsVars, rectVars, twinVars>>
IdleExceptGame ==
    SpriteIdle /\ BoxIdle /\ ParabolaIdle /\ KeysIdle /\ SolutionIdle /\ RunsIdle /\ TRexIdle /\ GeneratorIdle /\ ReplayIdle /\ CurveIdle /\ LoopIdle /\ SpawnsIdle /\ RectIdle /\ TwinIdle
varsExceptGame ==
    <<spriteVars, boxVars, parabolaVars, keysVars, solutionVars, runsVars, trexVars, generatorVars, replayVars, curveVars, loopVars, spawnsVars, rectVars, twinVars>>
IdleExceptTRex ==
    SpriteIdle /\ BoxIdle /\ ParabolaIdle /\ KeysIdle /\ SolutionIdle /\ RunsIdle /\ GameIdle /\ GeneratorIdle /\ ReplayIdle /\ CurveIdle /\ LoopIdle /\ SpawnsIdle /\ RectIdle /\ TwinIdle
varsExceptTRex ==
    <<spriteVars, boxVars, parabolaVars, keysVars, solutionVars, runsVars, gameVars, generatorVars, replayVars, curveVars, loopVars, spawnsVars, rectVars, twinVars>>
IdleExceptGenerator ==
    SpriteIdle /\ BoxIdle /\ ParabolaIdle /\ KeysIdle /\ SolutionIdle /\ RunsIdle /\ GameIdle /\ TRexIdle /\ ReplayIdle /\ CurveIdle /\ LoopIdle /\ SpawnsIdle /\ RectIdle /\ TwinIdle
varsExceptGenerator ==
    <<spriteVars, boxVars, parabolaVars, keysVars, solutionVars, runsVars, gameVars, trexVars, replayVars, curveVars, loopVars, spawnsVars, rectVars, twinVars>>
IdleExceptReplay ==
    SpriteIdle /\ BoxIdle /\ ParabolaIdle /\ KeysIdle /\ SolutionIdle /\ RunsIdle /\ GameIdle /\ TRexIdle /\ GeneratorIdle /\ CurveIdle /\ LoopIdle /\ SpawnsIdle /\ RectIdle /\ TwinIdle
varsExceptReplay ==
    <<spriteVars, boxVars, parabolaVars, keysVars, solutionVars, runsVars, gameVars, trexVars, generatorVars, curveVars, loopVars, spawnsVars, rectVars, twinVars>>
IdleExceptCurve ==
    SpriteIdle /\ BoxIdle /\ ParabolaIdle /\ KeysIdle /\ SolutionIdle /\ RunsIdle /\ GameIdle /\ TRexIdle /\ GeneratorIdle /\ ReplayIdle /\ LoopIdle /\ SpawnsIdle /\ RectIdle /\ TwinIdle
varsExceptCurve ==
    <<spriteVars, boxVars, parabolaVars, keysVars, solutionVars, runsVars, gameVars, trexVars, generatorVars, replayVars, loopVars, spawnsVars, rectVars, twinVars>>
IdleExceptLoop ==
    SpriteIdle /\ BoxIdle /\ ParabolaIdle /\ KeysIdle /\ SolutionIdle /\ RunsIdle /\ GameIdle /\ TRexIdle /\ GeneratorIdle /\ ReplayIdle /\ CurveIdle /\ SpawnsIdle /\ RectIdle /\ TwinIdle
varsExceptLoop ==
    <<spriteVars, boxVars, parabolaVars, keysVars, solutionVars, runsVars, gameVars, trexVars, generatorVars, replayVars, curveVars, spawnsVars, rectVars, twinVars>>
IdleExceptSpawns ==
    SpriteIdle /\ BoxIdle /\ ParabolaIdle /\ KeysIdle /\ SolutionIdle /\ RunsIdle /\ GameIdle /\ TRexIdle /\ GeneratorIdle /\ ReplayIdle /\ CurveIdle /\ LoopIdle /\ RectIdle /\ TwinIdle
varsExceptSpawns ==
    <<spriteVars, boxVars, parabolaVars, keysVars, solutionVars, runsVars, gameVars, trexVars, generatorVars, replayVars, curveVars, loopVars, rectVars, twinVars>>
IdleExceptRect ==
    SpriteIdle /\ BoxIdle /\ ParabolaIdle /\ KeysIdle /\ SolutionIdle /\ RunsIdle /\ GameIdle /\ TRexIdle /\ GeneratorIdle /\ ReplayIdle /\ CurveIdle /\ LoopIdle /\ SpawnsIdle /\ TwinIdle
varsExceptRect ==
    <<spriteVars, boxVars, parabolaVars, keysVars, solutionVars, runsVars, gameVars, trexVars, generatorVars, replayVars, curveVars, loopVars, spawnsVars, twinVars>>
IdleExceptTwin ==
    SpriteIdle /\ BoxIdle /\ ParabolaIdle /\ KeysIdle /\ SolutionIdle /\ RunsIdle /\ GameIdle /\ TRexIdle /\ GeneratorIdle /\ ReplayIdle /\ CurveIdle /\ LoopIdle /\ SpawnsIdle /\ RectIdle
varsExceptTwin ==
    <<spriteVars, boxVars, parabolaVars, keysVars, solutionVars, runsVars, gameVars, trexVars, generatorVars, replayVars, curveVars, loopVars, spawnsVars, rectVars>>

(***************************************************************************)
(* The collision queries: test::sprite_collision asks both directions.     *)
(***************************************************************************)
InitSprite ==
    /\ a \in CollisionSpritesA
    /\ b \in CollisionSprites
    /\ collided = None
    /\ IdleExceptSprite

sprite_collision ==
    /\ collided = None
    /\ collided' = Some([ab |-> collide(a, b), ba |-> collide(b, a)])
    /\ UNCHANGED <<a, b, varsExceptSprite>>

NextSprite == sprite_collision

SpecSprite == InitSprite /\ [][NextSprite]_vars

(***************************************************************************)
(* Reference notions of the collision claims, stated on world coordinates. *)
(***************************************************************************)
\* the world coordinates inside a box
Cells(box) == Line_range(box.x) \X Line_range(box.y)

\* the sprite's bit at world (x, y): bit (x - box.x.start) of row (y - box.y.start)
PixelAt(s, x, y) ==
    LET box == bounding_box(s)
    IN  ShiftRight(s.image.pixels[(y - box.y.start) + 1], x - box.x.start) % 2 = 1

SharePixel(s, t) ==
    \E c \in Cells(bounding_box(s)) \cap Cells(bounding_box(t)) :
        PixelAt(s, c[1], c[2]) /\ PixelAt(t, c[1], c[2])

BoxesOverlap(s, t) == Cells(bounding_box(s)) \cap Cells(bounding_box(t)) # {}

\* C1: collide(a, b) is true if and only if some world coordinate inside both
\* bounding boxes carries a set bit of both images (exact pixel-mask collision),
\* for all positions and origins and all images whose set bits lie in the
\* columns below the declared width.
C1_ExactMaskCollision ==
    collided # None =>
        /\ collided[1].ab = SharePixel(a, b)
        /\ collided[1].ba = SharePixel(b, a)

\* C1 witness: the boxes overlap in more than one cell, both images carry a
\* pixel, no cell carries a pixel of both, and the query answered "no
\* collision".
C1_Witness ==
    /\ collided # None
    /\ Cardinality(Cells(bounding_box(a)) \cap Cells(bounding_box(b))) > 1
    /\ SetBits(a.image.pixels) > 0 /\ SetBits(b.image.pixels) > 0
    /\ ~SharePixel(a, b)
    /\ ~collided[1].ab /\ ~collided[1].ba

\* C1 witness: one sprite is moved one column against the other, a full image
\* and the single pixel of the other now share a cell, and the query answered
\* "collision".
C1_WitnessShared ==
    /\ collided # None
    /\ bounding_box(a).x.start + 1 = bounding_box(b).x.start
    /\ SetBits(a.image.pixels) > 1 /\ SetBits(b.image.pixels) = 1
    /\ SharePixel(a, b)
    /\ collided[1].ab /\ collided[1].ba

\* C2: two sprites whose bounding boxes share no coordinate (boxes that only
\* touch included) never collide, whatever their pixel rows contain.
C2_DisjointBoxesNeverCollide ==
    (collided # None /\ ~BoxesOverlap(a, b)) =>
        (~collided[1].ab /\ ~collided[1].ba)

\* C2 witness: the boxes touch on x (a ends where b starts), share rows on y,
\* a carries a bit in its last column, b a bit in its first column, and the
\* query answered "no collision".
C2_Witness ==
    /\ collided # None
    /\ bounding_box(a).x.end = bounding_box(b).x.start
    /\ Line_intersect(bounding_box(a).y, bounding_box(b).y) # None
    /\ a.image.pixels[1] = 2 ^ (Image_width(a.image) - 1)
    /\ b.image.pixels[1] = 1
    /\ bounding_box(a).y.start = bounding_box(b).y.start
    /\ ~collided[1].ab /\ ~collided[1].ba

\* C3: collision is symmetric: a.collide(b) = b.collide(a).
C3_CollisionSymmetric ==
    collided # None => collided[1].ab = collided[1].ba

\* C3 witness: two sprites with different box starts that do collide.
C3_Witness ==
    /\ collided # None
    /\ collided[1].ab /\ collided[1].ba
    /\ bounding_box(a).x.start < bounding_box(b).x.start
    /\ bounding_box(a).y.start # bounding_box(b).y.start

(***************************************************************************)
(* The bounding_box query (test::bounding_box).                            *)
(***************************************************************************)
InitBox ==
    /\ sprite \in { Some(s) : s \in BoxSprites }
    /\ bbox = None
    /\ IdleExceptBox

bounding_box_call ==
    /\ bbox = None
    /\ bbox' = Some(bounding_box(sprite[1]))
    /\ UNCHANGED <<sprite, varsExceptBox>>

NextBox == bounding_box_call

SpecBox == InitBox /\ [][NextBox]_vars

\* the columns (rows) an axis of the box covers, as the claim states them
BoxWorld == ((0 - BoxMaxCoord) - (BoxMaxWidth + MaxHeight)) .. (BoxMaxCoord + BoxMaxWidth + MaxHeight)

AxisCellsIn(origin, anchor, extent) ==
    IF origin = "Min" THEN { c \in BoxWorld : anchor <= c /\ c < anchor + extent }
    ELSE { c \in BoxWorld : anchor - extent + 1 <= c /\ c < anchor + 1 }

\* C4: per axis the box is [anchor, anchor + extent) for a Min origin and
\* [anchor - extent + 1, anchor + 1) for a Max origin, so a Max-origin box has
\* the anchor as its last cell; w=4, h=2 at (3,1) gives x:[3,7), y:[1,3) for
\* Min/Min and x:[0,4), y:[0,2) for Max/Max.
C4_BoundingBox ==
    bbox # None =>
        LET s == sprite[1]
            w == s.image.width
            h == Len(s.image.pixels)
        IN  /\ Line_range(bbox[1].x) = AxisCellsIn(s.origin.x, s.position.x, w)
            /\ Line_range(bbox[1].y) = AxisCellsIn(s.origin.y, s.position.y, h)
            /\ bbox[1].x.end - bbox[1].x.start = w
            /\ bbox[1].y.end - bbox[1].y.start = h
            /\ (s.origin.x = "Max" => bbox[1].x.end - 1 = s.position.x)
            /\ (s.origin.y = "Max" => bbox[1].y.end - 1 = s.position.y)
            /\ (w = 4 /\ h = 2 /\ s.position = Pos_new(3, 1) =>
                    /\ (s.origin = Pos_new("Min", "Min") =>
                            bbox[1] = [x |-> Line_new(3, 7), y |-> Line_new(1, 3)])
                    /\ (s.origin = Pos_new("Max", "Max") =>
                            bbox[1] = [x |-> Line_new(0, 4), y |-> Line_new(0, 2)]))

\* C4 witness: the Max/Max box of the 4x2 image anchored at (3,1) was computed.
C4_Witness ==
    /\ bbox # None
    /\ sprite[1].image.width = 4 /\ Len(sprite[1].image.pixels) = 2
    /\ sprite[1].position = Pos_new(3, 1)
    /\ sprite[1].origin = Pos_new("Max", "Max")
    /\ bbox[1] = [x |-> Line_new(0, 4), y |-> Line_new(0, 2)]

(***************************************************************************)
(* games/utils.rs: Parabola.  The fields are usize; within the bounds of   *)
(* the model no product reaches the width of usize.                        *)
(***************************************************************************)
Parabola_new(max, duration) ==
    [max |-> max, duration |-> duration, time |-> 0, value |-> 0]

Parabola_value(self) == self.value

\* finished() one tick late
Parabola_finished_late(self) == self.time > self.duration

Parabola_finished(self) == self.time >= self.duration

calc_value_no_finish_check(self) ==
    LET coef_a == 4 * self.max
        coef_b == 4 * self.max * self.duration
    IN  (coef_b * self.time - coef_a * self.time * self.time)
            \div (self.duration * self.duration)

calc_value(self) ==
    LET coef_a == 4 * self.max
        coef_b == 4 * self.max * self.duration
    IN  IF self.time >= self.duration THEN 0
        ELSE (coef_b * self.time - coef_a * self.time * self.time)
                \div (self.duration * self.duration)

Parabola_step_value_first(self) ==
    [self EXCEPT !.time = self.time + 1, !.value = calc_value(self)]

Parabola_step(self) ==
    LET stepped == [self EXCEPT !.time = self.time + 1]
    IN  [stepped EXCEPT !.value = calc_value(stepped)]

InitParabola ==
    /\ parabola \in { Some(Parabola_new(max, duration)) :
                        max \in 0..MaxPeak, duration \in 1..MaxDuration }
    /\ trace = << Parabola_value(parabola[1]) >>
    /\ IdleExceptParabola

step ==
    /\ Len(trace) - 1 < parabola[1].duration + MaxOverrun
    /\ parabola' = Some(Parabola_step(parabola[1]))
    /\ trace' = Append(trace, Parabola_value(parabola'[1]))
    /\ UNCHANGED varsExceptParabola

NextParabola == step

SpecParabola == InitParabola /\ [][NextParabola]_vars

\* the number of step() calls made so far
Steps == Len(trace) - 1

\* C5: for duration > 0 and every number t of step() calls: value() is 0 at
\* t = 0, value() is 0 and finished() is true for t >= duration, finished() is
\* false for t < duration, and value() is never negative.
C5_ParabolaEndpoints ==
    parabola # None =>
        LET p == parabola[1]
        IN  /\ (Steps = 0 => Parabola_value(p) = 0)
            /\ (Steps >= p.duration => Parabola_value(p) = 0 /\ Parabola_finished(p))
            /\ (Steps < p.duration => ~Parabola_finished(p))
            /\ Parabola_value(p) >= 0
            /\ \A i \in 1..Len(trace) : trace[i] >= 0

\* C5 witness: a curve stepped past its duration, which was above ground midway.
C5_Witness ==
    /\ parabola # None
    /\ Steps > parabola[1].duration
    /\ Parabola_finished(parabola[1])
    /\ Parabola_value(parabola[1]) = 0
    /\ \E i \in 1..Len(trace) : trace[i] > 0

\* the claimed closed form of the height after t steps
ParabolaFormula(max, duration, t) ==
    (4 * max * t * (duration - t)) \div (duration * duration)

\* C6: after t step() calls with 0 <= t < duration, value() is
\* floor(4*max*t*(duration-t) / duration^2); so value() never exceeds max, equals
\* max at t = duration/2 when duration is even, and the value at t equals the
\* value at duration - t.
C6_ParabolaFormula ==
    parabola # None =>
        LET p == parabola[1]
        IN  /\ (Steps < p.duration =>
                    Parabola_value(p) = ParabolaFormula(p.max, p.duration, Steps))
            /\ Parabola_value(p) <= p.max
            /\ (Steps * 2 = p.duration => Parabola_value(p) = p.max)
            /\ \A t \in 0..Steps :
                    (t <= p.duration /\ p.duration - t <= Steps) =>
                        trace[t + 1] = trace[(p.duration - t) + 1]

\* C6 witness: an even-duration curve at its apex, with unequal heights on the
\* way up.
C6_Witness ==
    /\ parabola # None
    /\ Steps * 2 = parabola[1].duration
    /\ Parabola_value(parabola[1]) = parabola[1].max
    /\ Steps >= 3
    /\ trace[2] > 0 /\ trace[3] > trace[2] /\ trace[Steps + 1] > trace[3]

\* C6 second case: a whole curve was flown and its two halves mirror each other.
C6_WitnessSymmetric ==
    /\ parabola # None
    /\ Steps = parabola[1].duration
    /\ Steps >= 4
    /\ trace[2] > 0 /\ trace[2] = trace[Steps]
    /\ trace[3] > trace[2] /\ trace[3] = trace[Steps - 1]

(***************************************************************************)
(* input.rs: Key and Keys.  The masks are u8.                              *)
(***************************************************************************)
Key_Up == 0
Key_Down == 1
Key_Left == 2
Key_Right == 3
Key_Space == 4
AllKeys == {Key_Up, Key_Down, Key_Left, Key_Right, Key_Space}

Key_mask(key) == 2 ^ key

\* !m on a u8
NotU8(m) == 255 - m

Keys_new == [just_pressed |-> 0, pressing |-> 0]

Keys_update(self) == [self EXCEPT !.just_pressed = 0]

\* press() marking the key just pressed and not held
Keys_press_just_only(self, key) ==
    [self EXCEPT !.just_pressed = BitOr(self.just_pressed, Key_mask(key))]

Keys_press(self, key) ==
    [just_pressed |-> BitOr(self.just_pressed, Key_mask(key)),
     pressing     |-> BitOr(self.pressing, Key_mask(key))]

Keys_release_both_masks(self, key) ==
    [just_pressed |-> BitAnd(self.just_pressed, NotU8(Key_mask(key))),
     pressing     |-> BitAnd(self.pressing, NotU8(Key_mask(key)))]

Keys_release(self, key) ==
    [self EXCEPT !.pressing = BitAnd(self.pressing, NotU8(Key_mask(key)))]

Keys_just_pressed(self, key) == BitAnd(self.just_pressed, Key_mask(key)) # 0

Keys_pressing(self, key) ==
    LET pressing == BitAnd(self.pressing, Key_mask(key)) # 0
    IN  Keys_just_pressed(self, key) \/ pressing

Keys_any_pressed(self) == self.just_pressed # 0 \/ self.pressing # 0

InitKeys ==
    /\ keys = Some(Keys_new)
    /\ last = None
    /\ IdleExceptKeys

press(key) ==
    /\ keys' = Some(Keys_press(keys[1], key))
    /\ last' = Some([op |-> "press", key |-> key, before |-> keys[1]])
    /\ UNCHANGED varsExceptKeys

release(key) ==
    /\ keys' = Some(Keys_release(keys[1], key))
    /\ last' = Some([op |-> "release", key |-> key, before |-> keys[1]])
    /\ UNCHANGED varsExceptKeys

update ==
    /\ keys' = Some(Keys_update(keys[1]))
    /\ last' = Some([op |-> "update", key |-> Key_Up, before |-> keys[1]])
    /\ UNCHANGED varsExceptKeys

NextKeys ==
    \/ \E key \in AllKeys : press(key)
    \/ \E key \in AllKeys : release(key)
    \/ update

SpecKeys == InitKeys /\ [][NextKeys]_vars

\* bit `key` of a mask, read without the code's mask arithmetic
MaskBit(m, key) == (m \div (2 ^ key)) % 2

\* C7: after press(k), pressing(k) is true; after release(k), pressing(k) is true
\* exactly if k was just-pressed since the last update(); press(k) and release(k)
\* leave the held and just-pressed bits of every other key unchanged.
C7_PressRelease ==
    last # None =>
        LET k == last[1].key
            before == last[1].before
            now == keys[1]
        IN  /\ (last[1].op = "press" => Keys_pressing(now, k))
            /\ (last[1].op = "release" =>
                    (Keys_pressing(now, k) <=> MaskBit(before.just_pressed, k) = 1))
            /\ (last[1].op \in {"press", "release"} =>
                    \A j \in AllKeys \ {k} :
                        /\ MaskBit(now.pressing, j) = MaskBit(before.pressing, j)
                        /\ MaskBit(now.just_pressed, j) = MaskBit(before.just_pressed, j))

\* C7 witness: a key pressed in this tick was released while another key is
\* held: it still reads as pressing although its held bit is clear.
C7_Witness ==
    /\ last # None
    /\ last[1].op = "release"
    /\ MaskBit(last[1].before.just_pressed, last[1].key) = 1
    /\ MaskBit(last[1].before.pressing, last[1].key) = 1
    /\ MaskBit(keys[1].pressing, last[1].key) = 0
    /\ Keys_pressing(keys[1], last[1].key)
    /\ \E j \in AllKeys \ {last[1].key} : MaskBit(keys[1].pressing, j) = 1

\* C7 second case: a held key that was not pressed in this tick was released
\* and no longer reads as pressing.
C7_WitnessHeld ==
    /\ last # None
    /\ last[1].op = "release"
    /\ MaskBit(last[1].before.just_pressed, last[1].key) = 0
    /\ MaskBit(last[1].before.pressing, last[1].key) = 1
    /\ ~Keys_pressing(keys[1], last[1].key)

(***************************************************************************)
(* rand::rngs::SmallRng.  The generator is a library; its state is modelled *)
(* as the seed and the number of values drawn from it, and a drawn value    *)
(* as a choice of the action that draws it.  Two generators with the same   *)
(* seed and the same number of draws behind them yield the same values.     *)
(***************************************************************************)
SmallRng_from_seed(seed) == [seed |-> seed, pos |-> 0]

Rng_advance(rng, n) == [rng EXCEPT !.pos = @ + n]

(***************************************************************************)
(* solution.rs: SolutionGenerator.  `d` holds the values the generator     *)
(* draws in one next(): d.phase from gen_range(0..100), d.time from         *)
(* gen_range(50..100), d.low from gen_range(0..20), d.key from              *)
(* gen_range(0..5), and for the four iterations of each HighFreq loop       *)
(* d.release[i] from gen_range(0..2), d.press[i] from gen_range(0..5) and   *)
(* d.release_key[i], d.press_key[i] from gen_range(0..5).                   *)
(***************************************************************************)
SOLUTION_SIZE == 1024

SolutionSeed == "This is a funny random seed !!!!"

Key_from_u8(n) ==
    CASE n = 0 -> Key_Up
      [] n = 1 -> Key_Down
      [] n = 2 -> Key_Left
      [] n = 3 -> Key_Right
      [] n = 4 -> Key_Space

GeneratorPhase_sample(v) == IF v <= 29 THEN "LowFreq" ELSE "HighFreq"

SolutionGenerator_new ==
    [keys |-> Keys_new,
     phase |-> "LowFreq",
     phase_time_left |-> 0,
     random_generator |-> SmallRng_from_seed(SolutionSeed)]

RECURSIVE ReleaseLoop(_, _, _)
ReleaseLoop(self, d, i) ==
    IF i > 4 THEN self
    ELSE IF d.release[i] < 0
         THEN ReleaseLoop([self EXCEPT
                              !.keys = Keys_release(@, Key_from_u8(d.release_key[i])),
                              !.random_generator = Rng_advance(@, 2)], d, i + 1)
         ELSE ReleaseLoop([self EXCEPT !.random_generator = Rng_advance(@, 1)], d, i + 1)

RECURSIVE PressLoop(_, _, _)
PressLoop(self, d, i) ==
    IF i > 4 THEN self
    ELSE IF d.press[i] < 0
         THEN PressLoop([self EXCEPT
                            !.keys = Keys_press(@, Key_from_u8(d.press_key[i])),
                            !.random_generator = Rng_advance(@, 2)], d, i + 1)
         ELSE PressLoop([self EXCEPT !.random_generator = Rng_advance(@, 1)], d, i + 1)

\* the generator after next(); the Keys it returns is the result's keys field
SolutionGenerator_next(self, d) ==
    LET phased ==
            IF self.phase_time_left = 0
            THEN [self EXCEPT !.phase = GeneratorPhase_sample(d.phase),
                              !.phase_time_left = d.time,
                              !.random_generator = Rng_advance(@, 2)]
            ELSE [self EXCEPT !.phase_time_left = @ - 1]
        updated == [phased EXCEPT !.keys = Keys_update(@)]
    IN  IF updated.phase = "LowFreq"
        THEN IF d.low = 0
             THEN IF Keys_any_pressed(updated.keys)
                  THEN [updated EXCEPT !.keys = Keys_new,
                                       !.random_generator = Rng_advance(@, 1)]
                  ELSE [updated EXCEPT !.keys = Keys_press(@, Key_from_u8(d.key)),
                                       !.random_generator = Rng_advance(@, 2)]
             ELSE [updated EXCEPT !.random_generator = Rng_advance(@, 1)]
        ELSE PressLoop(ReleaseLoop(updated, d, 1), d, 1)

\* the line next() pushes to the static LOG (log.rs): log!("LowF") / log!("HighF")
SolutionGenerator_next_log(self, d) ==
    IF SolutionGenerator_next(self, d).phase = "LowFreq" THEN <<"LowF">> ELSE <<"HighF">>

\* the values drawn in the model: both arms of every comparison, the shortest
\* phase length, one of the five keys
Draws ==
    [phase : {29, 30},
     time : {50},
     low : {0, 19},
     key : {4},
     release : {<<1, 0, 1, 1>>},
     release_key : {<<0, 1, 2, 3>>},
     press : {<<4, 1, 0, 3>>},
     press_key : {<<4, 3, 2, 1>>}]

(***************************************************************************)
(* solution.rs: Solution.  keys is the ring, slot i at keys[i + 1].        *)
(***************************************************************************)
\* a call either returns a value or panics
Returned(v) == [ok |-> TRUE, value |-> v]
Panic(message) == [ok |-> FALSE, panic |-> message]

\* the generator after the calls k .. k + n - 1 of next(), counted from 1, with
\* the Keys they returned and the lines they pushed to the static LOG; call 1
\* draws p.first and every later call p.rest.  The calls are made in order;
\* the run is split in halves to keep the evaluation shallow.
RECURSIVE Nexts(_, _, _, _)
Nexts(g, k, n, p) ==
    IF n = 0 THEN [generator |-> g, keys |-> <<>>, LOG |-> <<>>]
    ELSE IF n = 1
    THEN LET d == IF k = 1 THEN p.first ELSE p.rest
             nx == SolutionGenerator_next(g, d)
         IN  [generator |-> nx, keys |-> <<nx.keys>>,
              LOG |-> SolutionGenerator_next_log(g, d)]
    ELSE LET h == n \div 2
             left == Nexts(g, k, h, p)
             right == Nexts(left.generator, k + h, n - h, p)
         IN  [keys |-> left.keys \o right.keys,
              LOG |-> left.LOG \o right.LOG,
              generator |-> right.generator]

\* the draws of the n calls of a fill: any draw in the first call, and in all
\* the others one draw that keeps the LowFreq phase, rolling 19 (the keys are
\* left alone) or 0 (Space is pressed and released call by call)
FillPatterns == [first : Draws, rest : { d \in Draws : d.phase = 29 }]

\* std::array::from_fn(|_| generator.next()): n slots filled by a new generator
Filled(n) == { Nexts(SolutionGenerator_new, 1, n, p) : p \in FillPatterns }

Solution_new ==
    { [first_index |-> 0, generator |-> f.generator, keys |-> f.keys] :
        f \in Filled(SOLUTION_SIZE) }

Solution_keys_wrapping(self, time) ==
    LET index == BitAnd(self.first_index + time, SOLUTION_SIZE - 1)
    IN  Returned(self.keys[index + 1])

Solution_keys(self, time) ==
    IF time >= SOLUTION_SIZE THEN Panic("Index out of bounds")
    ELSE LET index == BitAnd(self.first_index + time, SOLUTION_SIZE - 1)
         IN  Returned(self.keys[index + 1])

Solution_update_advance_first(self, d) ==
    LET generator == SolutionGenerator_next(self.generator, d)
        first_index == BitAnd(self.first_index + 1, SOLUTION_SIZE - 1)
    IN  [first_index |-> first_index,
         generator |-> generator,
         keys |-> [self.keys EXCEPT ![first_index + 1] = generator.keys]]

Solution_update(self, d) ==
    LET generator == SolutionGenerator_next(self.generator, d)
    IN  [first_index |-> BitAnd(self.first_index + 1, SOLUTION_SIZE - 1),
         generator |-> generator,
         keys |-> [self.keys EXCEPT ![self.first_index + 1] = generator.keys]]

Panicked == lookup # None /\ lookup[1].result = Panic("Index out of bounds")

\* update() called n times in a row, every call drawing d: the Solution after
\* the calls and the Keys the generator produced in them.  The calls are made
\* in order; the run is split in halves to keep the evaluation shallow.
RECURSIVE Solution_updates(_, _, _)
Solution_updates(self, n, d) ==
    IF n = 0 THEN [produced |-> <<>>, solution |-> self]
    ELSE IF n = 1
    THEN LET updated == Solution_update(self, d)
         IN  [produced |-> <<updated.generator.keys>>, solution |-> updated]
    ELSE LET h == n \div 2
             left == Solution_updates(self, h, d)
             right == Solution_updates(left.solution, n - h, d)
         IN  [produced |-> left.produced \o right.produced,
              solution |-> right.solution]

\* the Solution is met new or after the update() calls of a run so far, two
\* short of a full turn of the ring, in which the generator stayed in the
\* LowFreq phase and left the keys alone or toggled Space call by call
StartUpdates == {0, SOLUTION_SIZE - 2}
StartDraws == { d \in Draws : d.phase = 29 }

InitSolution ==
    /\ \E fresh \in Solution_new, n \in StartUpdates, d \in StartDraws :
          LET run == Solution_updates(fresh, n, d)
          IN  /\ solution = Some(run.solution)
              /\ produced = fresh.keys \o run.produced
    /\ lookup = None
    /\ before_update = None
    /\ IdleExceptSolution

Solution_keys_call(time) ==
    /\ ~Panicked
    /\ lookup' = Some([time |-> time,
                       result |-> Solution_keys(solution[1], time),
                       before |-> solution[1]])
    /\ UNCHANGED <<solution, produced, before_update, varsExceptSolution>>

Solution_update_call(d) ==
    /\ ~Panicked
    /\ \E n \in StartUpdates :
          Len(produced) - SOLUTION_SIZE \in n .. (n + MaxUpdates - 1)
    /\ solution' = Some(Solution_update(solution[1], d))
    /\ produced' = Append(produced, SolutionGenerator_next(solution[1].generator, d).keys)
    /\ before_update' = solution
    /\ lookup' = None
    /\ UNCHANGED varsExceptSolution

\* the offsets asked: the two ends of the window and those just past it
LookupTimes == {0, SOLUTION_SIZE - 1} \cup (SOLUTION_SIZE .. (SOLUTION_SIZE + MaxBeyond))

NextSolution ==
    \/ \E time \in LookupTimes : Solution_keys_call(time)
    \/ \E d \in Draws : Solution_update_call(d)

SpecSolution == InitSolution /\ [][NextSolution]_vars

\* the number of update() calls made so far
Updates == Len(produced) - SOLUTION_SIZE

\* C8: update() shifts the window by one: keys(i) after it is keys(i+1) before it
\* for i in [0, capacity-2], keys(capacity-1) after it is the value the generator
\* produced during it; so after n updates keys(t) is the (n+t)-th value produced
\* (from 0), and first_index stays in [0, capacity).
C8_WindowShift ==
    solution # None =>
        /\ solution[1].first_index \in 0 .. (SOLUTION_SIZE - 1)
        /\ \A t \in 0 .. (SOLUTION_SIZE - 1) :
                Solution_keys(solution[1], t) = Returned(produced[Updates + t + 1])
        /\ (before_update # None =>
                /\ \A i \in 0 .. (SOLUTION_SIZE - 2) :
                        Solution_keys(solution[1], i) = Solution_keys(before_update[1], i + 1)
                /\ Solution_keys(solution[1], SOLUTION_SIZE - 1)
                        = Returned(produced[Len(produced)])
                /\ solution[1].generator.keys = produced[Len(produced)])

\* C8 witness: the ring has wrapped around, the window holds unequal values and
\* the freshly produced one differs from the one it replaced.
C8_Witness ==
    /\ solution # None /\ before_update # None
    /\ Updates > SOLUTION_SIZE
    /\ solution[1].first_index = 1
    /\ Solution_keys(solution[1], SOLUTION_SIZE - 1) # Solution_keys(before_update[1], 0)
    /\ Solution_keys(solution[1], 0) # Solution_keys(solution[1], 1)
    /\ Solution_keys(solution[1], 1) # Solution_keys(solution[1], 2)

\* C9: keys(t) returns a value for every t in [0, capacity) in every reachable
\* state and fails with the out-of-range error, neither clamped nor wrapped, for
\* every t >= capacity; either way the buffer, first_index and generator stay
\* as they were.
C9_KeysRange ==
    /\ solution # None =>
        /\ \A t \in 0 .. (SOLUTION_SIZE - 1) : Solution_keys(solution[1], t).ok
        /\ \A t \in SOLUTION_SIZE .. (SOLUTION_SIZE + MaxBeyond) :
                Solution_keys(solution[1], t) = Panic("Index out of bounds")
    /\ lookup # None =>
        /\ (lookup[1].time < SOLUTION_SIZE =>
                /\ lookup[1].result.ok
                /\ lookup[1].result = Returned(produced[Updates + lookup[1].time + 1]))
        /\ (lookup[1].time >= SOLUTION_SIZE =>
                lookup[1].result = Panic("Index out of bounds"))
        /\ solution = Some(lookup[1].before)

\* C9 witness: after the ring has advanced, an offset one past the last slot was
\* asked and failed, where wrapping would have returned the first slot.
C9_Witness ==
    /\ lookup # None
    /\ Updates >= 2
    /\ lookup[1].time = SOLUTION_SIZE
    /\ lookup[1].result = Panic("Index out of bounds")
    /\ solution = Some(lookup[1].before)

\* C9 second case: the last valid offset was asked after the ring had advanced.
C9_WitnessInRange ==
    /\ lookup # None
    /\ Updates >= 2
    /\ lookup[1].time = SOLUTION_SIZE - 1
    /\ lookup[1].result = Returned(produced[Len(produced)])

(***************************************************************************)
(* games/trex.rs: the sprite bitmaps.  A row is written as in the source,  *)
(* most significant bit first.                                             *)
(***************************************************************************)
TREX_RUNNING ==
    <<
     [pixels |-> <<
          \b01111110000000,
          \b11110011000000,
          \b11110011000000,
          \b11111111000000,
          \b00001111000000,
          \b00111111000000,
          \b00000111100001,
          \b00011111110011,
          \b00010111111111,
          \b00000111111111,
          \b00000111111110,
          \b00000011111100,
          \b00000001111000,
          \b00000011011000,
          \b00000000001000,
          \b00000000011000 >>,
      width |-> 14],
     [pixels |-> <<
          \b01111110000000,
          \b11110011000000,
          \b11110011000000,
          \b11111111000000,
          \b00001111000000,
          \b00111111000000,
          \b00000111100001,
          \b00011111110011,
          \b00010111111111,
          \b00000111111111,
          \b00000111111110,
          \b00000011111100,
          \b00000001111000,
          \b00000001001000,
          \b00000001011000,
          \b00000011000000 >>,
      width |-> 14]
    >>

TREX_CROUCHING ==
    <<
     [pixels |-> <<
          \b011111100000000000,
          \b111100110111100001,
          \b111111111111110011,
          \b111111111111111111,
          \b000011111111111111,
          \b001111100111111110,
          \b000000001111111100,
          \b000000001011011000,
          \b000000000001001100,
          \b000000000011000100,
          \b000000000000001100 >>,
      width |-> 18],
     [pixels |-> <<
          \b011111100000000000,
          \b111100110111100001,
          \b111111111111110011,
          \b111111111111111111,
          \b000011111111111111,
          \b001111100111111110,
          \b000000001111111100,
          \b000000001011001000,
          \b000000000001100100,
          \b000000000000101100,
          \b000000000001100000 >>,
      width |-> 18]
    >>

BIRD ==
    <<
     [pixels |-> <<
          \b00000000011100000,
          \b00000000011110000,
          \b00000011011111000,
          \b00000111011001000,
          \b00111111111001111,
          \b11111111111111110,
          \b00001111111111000,
          \b00111111111111000,
          \b00000111111110000 >>,
      width |-> 17],
     [pixels |-> <<
          \b00000000011100000,
          \b00000000011110000,
          \b00000000011111000,
          \b00000000011001000,
          \b00111111111001111,
          \b11111111111111110,
          \b00001111111111000,
          \b00111111111111000,
          \b00000111111110000,
          \b00000000000000000 >>,
      width |-> 17],
     [pixels |-> <<
          \b00000000011100000,
          \b00000000011110000,
          \b00000000011111000,
          \b00000000011001000,
          \b00111111111001111,
          \b11111111111111110,
          \b00001111111111000,
          \b00111111111111000,
          \b00000111111110000,
          \b00000111000000000,
          \b00000011000000000 >>,
      width |-> 17],
     [pixels |-> <<
          \b00000000011100000,
          \b00000000011110000,
          \b00000000011111000,
          \b00000000011001000,
          \b00111111111001111,
          \b11111111111111110,
          \b00001111111111000,
          \b00111111111111000,
          \b00000111111110000,
          \b00000000000000000 >>,
      width |-> 17]
    >>

CACTUSES ==
    <<
     [pixels |-> <<
          \b00000100000,
          \b00001110000,
          \b01001110000,
          \b11001110010,
          \b11001110011,
          \b11001110011,
          \b11001110011,
          \b11001110011,
          \b11111111111,
          \b01111111110,
          \b00111111100,
          \b00001110000,
          \b00001110000,
          \b00001110000,
          \b00001110000 >>,
      width |-> 11],
     [pixels |-> <<
          \b00000100000,
          \b00001110000,
          \b01001110000,
          \b11001110010,
          \b11001110011,
          \b11001110011,
          \b11001110011,
          \b11001110011,
          \b11111111111,
          \b01111111110,
          \b00111111100,
          \b00001110000,
          \b00001110000,
          \b00001110000,
          \b00001110000 >>,
      width |-> 11],
     [pixels |-> <<
          \b00000100000,
          \b00001110000,
          \b01001110000,
          \b11001110010,
          \b11001110011,
          \b11001110011,
          \b11001110011,
          \b11001110011,
          \b11111111111,
          \b01111111110,
          \b00111111100,
          \b00001110000,
          \b00001110000,
          \b00001110000,
          \b00001110000 >>,
      width |-> 11]
    >>

\* image.rs: ImageAnimation::image
ImageAnimation_image(self, frame) == self[(frame % Len(self)) + 1]

\* math.rs: Size
Size_new(width, height) == [width |-> width, height |-> height]

(***************************************************************************)
(* games/trex.rs: TRex, the player and the ghost.                          *)
(***************************************************************************)
TREX_Y == 4

TRex_pos(self) ==
    <<TREX_Y, IF self.jump = None THEN 0 ELSE Parabola_value(self.jump[1])>>

\* handle_jump() starting a jump over the one in the air when Space is just pressed
TRex_handle_jump_restarting(self, pressed) ==
    LET updated ==
            IF self.jump # None
            THEN LET stepped == Parabola_step(self.jump[1])
                 IN  IF Parabola_finished(stepped) \/ Keys_just_pressed(pressed, Key_Space)
                     THEN [self EXCEPT !.jump = None]
                     ELSE [self EXCEPT !.jump = Some(stepped)]
            ELSE self
    IN  IF updated.jump = None /\ Keys_pressing(pressed, Key_Space)
        THEN LET jump_height   == IF updated.crouching THEN 6 ELSE 25
                 jump_duration == IF updated.crouching THEN 8 ELSE 22
             IN  [updated EXCEPT !.jump = Some(Parabola_new(jump_height, jump_duration))]
        ELSE updated

TRex_handle_jump(self, pressed) ==
    LET updated ==
            IF self.jump # None
            THEN LET stepped == Parabola_step(self.jump[1])
                 IN  IF Parabola_finished(stepped)
                     THEN [self EXCEPT !.jump = None]
                     ELSE [self EXCEPT !.jump = Some(stepped)]
            ELSE self
    IN  IF updated.jump = None /\ Keys_pressing(pressed, Key_Space)
        THEN LET jump_height   == IF updated.crouching THEN 6 ELSE 25
                 jump_duration == IF updated.crouching THEN 8 ELSE 22
             IN  [updated EXCEPT !.jump = Some(Parabola_new(jump_height, jump_duration))]
        ELSE updated

\* update() starting the jump before it looks at Down
TRex_update_jump_first(self, pressed) ==
    [TRex_handle_jump(self, pressed) EXCEPT !.crouching = Keys_pressing(pressed, Key_Down)]

TRex_update(self, pressed) ==
    TRex_handle_jump([self EXCEPT !.crouching = Keys_pressing(pressed, Key_Down)],
                     pressed)

TRex_sprite(self, frame_count) ==
    LET skin_frame_divisor == IF self.jump # None THEN 2 ELSE 4
        skin == IF self.crouching THEN TREX_CROUCHING ELSE TREX_RUNNING
        x == IF self.jump # None THEN 0
             ELSE BitAnd(frame_count \div skin_frame_divisor, 1)
    IN  [image |-> ImageAnimation_image(skin, frame_count \div skin_frame_divisor),
         position |-> Pos_new(x, TRex_pos(self)[2]),
         origin |-> Pos_new("Min", "Max")]

(***************************************************************************)
(* games/trex.rs: Enemy.                                                   *)
(***************************************************************************)
EnemyModel_Cactus(model) == [kind |-> "Cactus", model |-> model]
EnemyModel_Bird == [kind |-> "Bird"]

Enemy_skin(self, frame_count) ==
    IF self.model.kind = "Cactus"
    THEN CACTUSES[self.model.model + 1]
    ELSE ImageAnimation_image(BIRD, (self.velocity * frame_count) \div 16)

Enemy_sprite(self, frame_count) ==
    [image |-> Enemy_skin(self, frame_count),
     position |-> self.position,
     origin |-> Pos_new("Min", "Max")]

(***************************************************************************)
(* games/trex.rs: TRexGame.  `game` is the GameContext of the tick (size,   *)
(* keys, solution); `d` holds the values the game's generator yields when  *)
(* asked in this tick: d.cooldown from gen_range(10..50), d.roll from       *)
(* next_u32(), d.y from gen_range(1..=20), d.velocity from                  *)
(* gen_range(4..=7).                                                        *)
(***************************************************************************)
TRexGameSeed == "Seed chosen by a fair dice roll."

DESPAWN_Y_BARRIER == -32

\* new() with a ghost that starts in the air
TRexGame_new_ghost_airborne ==
    LET initial_trex == [crouching |-> FALSE, jump |-> None]
    IN  [trex |-> initial_trex,
         trex_solution |-> [initial_trex EXCEPT !.jump = Some(Parabola_new(25, 22))],
         frame_count |-> 0,
         enemies |-> <<>>,
         enemy_cooldown |-> 10,
         random |-> SmallRng_from_seed(TRexGameSeed)]

TRexGame_new ==
    LET initial_trex == [crouching |-> FALSE, jump |-> None]
    IN  [trex |-> initial_trex,
         trex_solution |-> initial_trex,
         frame_count |-> 0,
         enemies |-> <<>>,
         enemy_cooldown |-> 10,
         random |-> SmallRng_from_seed(TRexGameSeed)]

\* collide() looking at the ghost whoever is asked about
TRexGame_collide_ghost(self, trex, time) ==
    LET frame_count == self.frame_count + time
        trex_sprite == TRex_sprite(self.trex_solution, frame_count)
    IN  \E i \in 1..Len(self.enemies) :
            LET enemy == [self.enemies[i] EXCEPT
                             !.position.x = @ + self.enemies[i].velocity * time]
            IN  collide(Enemy_sprite(enemy, frame_count), trex_sprite)

TRexGame_collide(self, trex, time) ==
    LET frame_count == self.frame_count + time
        trex_sprite == TRex_sprite(trex, frame_count)
    IN  \E i \in 1..Len(self.enemies) :
            LET enemy == [self.enemies[i] EXCEPT
                             !.position.x = @ + self.enemies[i].velocity * time]
            IN  collide(Enemy_sprite(enemy, frame_count), trex_sprite)

\* spawn_cactus() sending a faster cactus at a player who holds Down
spawn_cactus_by_keys(self, game) ==
    [self EXCEPT !.enemies = Append(@, [position |-> Pos_new(game.size.width, 0),
                                        velocity |-> IF Keys_pressing(game.keys, Key_Down)
                                                     THEN 4 ELSE 3,
                                        model |-> EnemyModel_Cactus(0)])]

spawn_cactus(self, game) ==
    [self EXCEPT !.enemies = Append(@, [position |-> Pos_new(game.size.width, 0),
                                        velocity |-> 3,
                                        model |-> EnemyModel_Cactus(0)])]

spawn_bird(self, game, d) ==
    [self EXCEPT !.enemies = Append(@, [position |-> Pos_new(game.size.width, d.y),
                                        velocity |-> d.velocity,
                                        model |-> EnemyModel_Bird]),
                 !.random = Rng_advance(@, 2)]

\* spawn_enemy() rolling for a bird from the first tick on
spawn_enemy_no_grace(self, game, d) ==
    LET rolled == [self EXCEPT !.random = Rng_advance(@, 1)]
        cactus == BitAnd(d.roll, 3) # 0
    IN  IF cactus THEN spawn_cactus(rolled, game) ELSE spawn_bird(rolled, game, d)

spawn_enemy(self, game, d) ==
    LET rolled == [self EXCEPT !.random = Rng_advance(@, 1)]
        cactus == BitAnd(d.roll, 3) # 0 \/ self.frame_count < 100
    IN  IF cactus THEN spawn_cactus(rolled, game) ELSE spawn_bird(rolled, game, d)

\* spawn_enemies() counting down before it looks at the countdown
spawn_enemies_counting_first(self, game, d) ==
    LET counted == [self EXCEPT !.enemy_cooldown = @ - 1]
    IN  IF counted.enemy_cooldown = 0
        THEN spawn_enemy([counted EXCEPT !.enemy_cooldown = d.cooldown,
                                         !.random = Rng_advance(@, 1)], game, d)
        ELSE counted

spawn_enemies(self, game, d) ==
    LET spawned ==
            IF self.enemy_cooldown = 0
            THEN spawn_enemy([self EXCEPT !.enemy_cooldown = d.cooldown,
                                          !.random = Rng_advance(@, 1)], game, d)
            ELSE self
    IN  [spawned EXCEPT !.enemy_cooldown = @ - 1]

\* update_enemies() leaving every obstacle where it is
update_enemies_in_place(self) == self

update_enemies(self) ==
    [self EXCEPT !.enemies =
        [i \in 1..Len(self.enemies) |->
            [self.enemies[i] EXCEPT !.position.x = @ - self.enemies[i].velocity]]]

despawn_enemies_at_barrier(self) ==
    IF self.enemies # <<>> /\ self.enemies[1].position.x <= DESPAWN_Y_BARRIER
    THEN [self EXCEPT !.enemies = Tail(@)]
    ELSE self

despawn_enemies(self) ==
    IF self.enemies # <<>> /\ self.enemies[1].position.x < DESPAWN_Y_BARRIER
    THEN [self EXCEPT !.enemies = Tail(@)]
    ELSE self

\* the loop of trex_solution(): `trex` updated with keys(t), keys(t + 1), ...,
\* n of them in this order, stopping at the first keys() that panics.  The
\* run is split in halves to keep the evaluation shallow.
RECURSIVE trex_solution_loop(_, _, _, _)
trex_solution_loop(trex, sol, t, n) ==
    IF n = 0 THEN Returned(trex)
    ELSE IF n = 1
    THEN LET pressed == Solution_keys(sol, t)
         IN  IF pressed.ok THEN Returned(TRex_update(trex, pressed.value)) ELSE pressed
    ELSE LET h == n \div 2
             left == trex_solution_loop(trex, sol, t, h)
         IN  IF left.ok THEN trex_solution_loop(left.value, sol, t + h, n - h) ELSE left

\* trex_solution() replaying from the keys of tick 0
TRexGame_trex_solution_from_zero(self, sol, time) ==
    trex_solution_loop(self.trex_solution, sol, 0, time + 1)

\* for t in 1..=time { trex.update(solution.keys(t)) }
TRexGame_trex_solution(self, sol, time) ==
    trex_solution_loop(self.trex_solution, sol, 1, time)

\* update() advancing the obstacles before it despawns and spawns
TRexGame_update_advance_first(self, game, d) ==
    LET player  == [self EXCEPT !.trex = TRex_update(@, game.keys)]
        ghost   == [player EXCEPT !.trex_solution =
                        TRex_update(@, Solution_keys(game.solution, 0).value)]
        moved   == spawn_enemies(despawn_enemies(update_enemies(ghost)), game, d)
        log     == IF TRexGame_collide(moved, moved.trex, 0)
                   THEN <<"Game Over">> ELSE <<>>
    IN  [self |-> [moved EXCEPT !.frame_count = @ + 1], log |-> log]

\* the game after update() and the lines the update pushes to the static LOG
TRexGame_update(self, game, d) ==
    LET player  == [self EXCEPT !.trex = TRex_update(@, game.keys)]
        ghost   == [player EXCEPT !.trex_solution =
                        TRex_update(@, Solution_keys(game.solution, 0).value)]
        moved   == update_enemies(spawn_enemies(despawn_enemies(ghost), game, d))
        log     == IF TRexGame_collide(moved, moved.trex, 0)
                   THEN <<"Game Over">> ELSE <<>>
    IN  [self |-> [moved EXCEPT !.frame_count = @ + 1], log |-> log]

(***************************************************************************)
(* main.rs: App, together with the static LOG of its process (log.rs).     *)
(* App.log receives the lines written to GameContext.log; the log! macro   *)
(* of the game and of the generator writes to LOG.                         *)
(***************************************************************************)
\* App::new() when Solution::new() filled its ring as `f` says
App_from(f) ==
    [trex |-> TRexGame_new,
     keys |-> Keys_new,
     solution |-> [first_index |-> 0, generator |-> f.generator, keys |-> f.keys],
     log |-> <<>>,
     LOG |-> f.LOG]

App_new == { App_from(f) : f \in Filled(SOLUTION_SIZE) }

App_handle_key(self, kind, key) ==
    CASE kind = "Press"   -> [self EXCEPT !.keys = Keys_press(@, key)]
      [] kind = "Release" -> [self EXCEPT !.keys = Keys_release(@, key)]
      [] kind = "Repeat"  -> self

\* a - b and a * b in u16: an overflow panics in a build with overflow checks
\* (the dev profile) and wraps in one without them (the release profile)
U16_sub(lhs, rhs, overflow_checks) ==
    IF lhs >= rhs THEN Returned(lhs - rhs)
    ELSE IF overflow_checks THEN Panic("attempt to subtract with overflow")
    ELSE Returned((lhs - rhs + 65536) % 65536)

U16_mul(lhs, rhs, overflow_checks) ==
    IF lhs * rhs < 65536 THEN Returned(lhs * rhs)
    ELSE IF overflow_checks THEN Panic("attempt to multiply with overflow")
    ELSE Returned((lhs * rhs) % 65536)

\* the size of the game in pixels is computed first, the width before the
\* height; a panic there ends the program before the game is updated
App_trex_canvas(self, canvas_size, d, overflow_checks) ==
    LET inner_width == U16_sub(canvas_size.width, 2, overflow_checks)
        width == IF inner_width.ok THEN U16_mul(2, inner_width.value, overflow_checks)
                 ELSE inner_width
        inner_height == U16_sub(canvas_size.height, 2, overflow_checks)
        height == IF inner_height.ok THEN U16_mul(4, inner_height.value, overflow_checks)
                  ELSE inner_height
        size == Size_new(width.value, height.value)
        updated == TRexGame_update(self.trex,
                                   [size |-> size, keys |-> self.keys,
                                    solution |-> self.solution], d)
    IN  IF ~width.ok THEN width
        ELSE IF ~height.ok THEN height
        ELSE Returned([self EXCEPT !.trex = updated.self, !.LOG = @ \o updated.log])

\* ui() storing the keys of this tick in the slot that solution.update() frees
App_ui_recording_keys(self, canvas_size, d, g, overflow_checks) ==
    LET drawn == App_trex_canvas(self, canvas_size, d, overflow_checks)
        updated == Solution_update(self.solution, g)
        slot == self.solution.first_index + 1
    IN  IF ~drawn.ok THEN drawn
        ELSE Returned([drawn.value EXCEPT
                      !.keys = Keys_update(@),
                      !.solution = [updated EXCEPT !.keys[slot] = self.keys],
                      !.LOG = @ \o SolutionGenerator_next_log(self.solution.generator, g)])

\* ui() clearing the just-pressed bits before the game reads the keys
App_ui_clearing_first(self, canvas_size, d, g, overflow_checks) ==
    LET drawn == App_trex_canvas([self EXCEPT !.keys = Keys_update(@)], canvas_size, d,
                                 overflow_checks)
    IN  IF ~drawn.ok THEN drawn
        ELSE Returned([drawn.value EXCEPT
                      !.solution = Solution_update(@, g),
                      !.LOG = @ \o SolutionGenerator_next_log(self.solution.generator, g)])

\* one tick: the game update, then keys.update() and solution.update()
App_ui(self, canvas_size, d, g, overflow_checks) ==
    LET drawn == App_trex_canvas(self, canvas_size, d, overflow_checks)
    IN  IF ~drawn.ok THEN drawn
        ELSE Returned([drawn.value EXCEPT
                      !.keys = Keys_update(@),
                      !.solution = Solution_update(@, g),
                      !.LOG = @ \o SolutionGenerator_next_log(self.solution.generator, g)])

(***************************************************************************)
(* Two runs of the program side by side.  Each run is constructed and      *)
(* stepped on its own: it has its own key events, its own canvas and its   *)
(* own build, and draws from its own generators; only the ticks of the two *)
(* runs come in step, so both solutions are updated equally often.  What   *)
(* a generator yields is a function of its seed and of the number of       *)
(* values it has yielded (rand: SeedableRng::from_seed): a step takes any  *)
(* such function and each run reads it at the state of its own generator.  *)
(* alike tells whether the game of both runs was given the same keys and   *)
(* the same canvas size in every tick so far.                              *)
(***************************************************************************)
Streams(generators, values) == [generators -> values]

KeyEventKinds == {"Press", "Release", "Repeat"}
EventKeys == {Key_Space, Key_Down}
\* canvases of 12 and of 16 pixel columns
CanvasSizes == { Size_new(8, 10), Size_new(10, 10) }

\* the values drawn while two runs tick: both ends of the cooldown; the
\* generator of the solution stays in its LowFreq phase and toggles its key
GameDraws == [cooldown : {10, 49}, roll : {5}, y : {20}, velocity : {4}]
TickDraws == { g \in Draws : g.phase = 29 /\ g.time = 50 /\ g.low = 0 }

\* the builds of the two runs: both with overflow checks, or the second without
RunBuilds == { <<TRUE, TRUE>>, <<TRUE, FALSE>> }

\* what the generator draws while Solution::new fills the ring: it stays in
\* the LowFreq phase and presses Space in its first call only
RunFills ==
    [first : { d \in Draws : d.phase = 29 /\ d.low = 0 },
     rest : { d \in Draws : d.phase = 29 /\ d.low = 19 }]

\* App::new() of a run, its generator reading the stream
App_new_reading(stream) ==
    App_from(Nexts(SolutionGenerator_new, 1, SOLUTION_SIZE,
                   stream[SolutionGenerator_new.random_generator]))

InitRuns ==
    /\ \E stream \in Streams({SolutionGenerator_new.random_generator}, RunFills) :
          runs = <<App_new_reading(stream), App_new_reading(stream)>>
    /\ alike = TRUE
    /\ IdleExceptRuns

\* both runs get key events before the first tick; in the last MaxApart
\* ticks the second run gets events of its own
LastTicks ==
    /\ runs[1].trex.frame_count >= MaxTicks - MaxApart
    /\ runs[1].trex.frame_count < MaxTicks

\* a key event that both runs receive, before the first tick
handle_key(kind, key) ==
    /\ runs[1].trex.frame_count = 0
    /\ runs' = <<App_handle_key(runs[1], kind, key), App_handle_key(runs[2], kind, key)>>
    /\ UNCHANGED <<alike, varsExceptRuns>>

\* a key event that only the second run receives
handle_key_second(kind, key) ==
    /\ LastTicks
    /\ runs' = <<runs[1], App_handle_key(runs[2], kind, key)>>
    /\ UNCHANGED <<alike, varsExceptRuns>>

\* one tick of each run, on its own canvas and in its own build; a run that
\* panics makes no tick
ui(canvas_sizes, overflow_checks) ==
    /\ runs[1].trex.frame_count < MaxTicks
    /\ \E game_stream \in Streams({runs[1].trex.random, runs[2].trex.random}, GameDraws),
          solution_stream \in Streams({runs[1].solution.generator.random_generator,
                                       runs[2].solution.generator.random_generator},
                                      TickDraws) :
          LET ticked1 == App_ui(runs[1], canvas_sizes[1],
                                game_stream[runs[1].trex.random],
                                solution_stream[runs[1].solution.generator.random_generator],
                                overflow_checks[1])
              ticked2 == App_ui(runs[2], canvas_sizes[2],
                                game_stream[runs[2].trex.random],
                                solution_stream[runs[2].solution.generator.random_generator],
                                overflow_checks[2])
          IN  /\ ticked1.ok /\ ticked2.ok
              /\ runs' = <<ticked1.value, ticked2.value>>
    /\ alike' = (alike /\ runs[1].keys = runs[2].keys /\ canvas_sizes[1] = canvas_sizes[2])
    /\ UNCHANGED varsExceptRuns

NextRuns ==
    \/ \E kind \in KeyEventKinds, key \in EventKeys : handle_key(kind, key)
    \/ \E kind \in KeyEventKinds, key \in EventKeys : handle_key_second(kind, key)
    \/ \E canvas_sizes \in CanvasSizes \X CanvasSizes, overflow_checks \in RunBuilds :
            ui(canvas_sizes, overflow_checks)

SpecRuns == InitRuns /\ [][NextRuns]_vars

\* the number of "Game Over" lines in a log
GameOvers(lines) == Cardinality({ i \in 1..Len(lines) : lines[i] = "Game Over" })

C10_WitnessJumped ==
    /\ alike
    /\ runs[1].trex.enemies # <<>> /\ runs[2].trex.enemies # <<>>
    /\ runs[1].trex.enemies[1].position.x = 2 * (8 - 2) - 3
    /\ runs[1].trex.trex.jump # None /\ runs[2].trex.trex.jump # None
    /\ GameOvers(runs[1].LOG) = 0 /\ GameOvers(runs[2].LOG) = 0

\* C10, runs given different keys and canvases: in the last tick the second
\* run alone pressed Space and its canvas was the wider one, so its player
\* has left the ground and its obstacle was spawned further away; the first
\* ran into its obstacle, the second did not.  The solutions hold a pressed key and
\* agree all the same (C10_Determinism).
C10_WitnessApart ==
    /\ ~alike
    /\ runs[1].trex.frame_count > 10
    /\ runs[1].trex.enemies # <<>> /\ runs[2].trex.enemies # <<>>
    /\ runs[1].trex.enemies[1].position.x < runs[2].trex.enemies[1].position.x
    /\ runs[1].trex.trex.jump = None /\ runs[2].trex.trex.jump # None
    /\ GameOvers(runs[1].LOG) > 0 /\ GameOvers(runs[2].LOG) = 0
    /\ \E t \in 0 .. (SOLUTION_SIZE - 1) :
            Solution_keys(runs[1].solution, t).value # Keys_new

(***************************************************************************)
(* TRexGame::update called on its own, with the GameContext of each call   *)
(* as the input: the live Keys, the Solution the ghost reads and the size  *)
(* of the viewport.                                                        *)
(***************************************************************************)
\* the draws of a next() that takes the LowFreq arm and rolls `low` and `key`
DrawWith(low, key) ==
    [phase |-> 29, time |-> 50, low |-> low, key |-> key,
     release |-> <<1, 0, 1, 1>>, release_key |-> <<0, 1, 2, 3>>,
     press |-> <<4, 1, 0, 3>>, press_key |-> <<4, 3, 2, 1>>]

\* Solution::new() when the first next() draws `first` and the others press nothing
Solution_from(first) ==
    LET f == Nexts(SolutionGenerator_new, 1, SOLUTION_SIZE,
                   [first |-> first, rest |-> DrawWith(19, 4)])
    IN  [first_index |-> 0, generator |-> f.generator, keys |-> f.keys]

\* a Solution whose keys(0) is empty, has `key` just pressed, holds `key`
Solution_quiet == Solution_from(DrawWith(19, 4))
Solution_pressing(key) == Solution_from(DrawWith(0, key))
Solution_holding(key) == Solution_update(Solution_pressing(key), DrawWith(19, 4))

InitGame ==
    /\ trexgame = Some(TRexGame_new)
    /\ ctx = None
    /\ logged = <<>>
    /\ born = <<>>
    /\ ticked = 0
    /\ IdleExceptGame

\* one TRexGame::update.  born keeps, for every obstacle of the queue, the
\* tick in which it was pushed and the viewport width of that tick: a push
\* is seen in the generator having been used, a pop in the queue's length.
TRexGame_update_call(pressed, sol, size, d) ==
    LET game_ctx == [size |-> size, keys |-> pressed, solution |-> sol]
        updated == TRexGame_update(trexgame[1], game_ctx, d)
        pushed == updated.self.random # trexgame[1].random
        popped == Len(trexgame[1].enemies) + (IF pushed THEN 1 ELSE 0)
                    > Len(updated.self.enemies)
        kept == IF popped THEN Tail(born) ELSE born
    IN  /\ trexgame' = Some(updated.self)
        /\ ctx' = Some(game_ctx)
        /\ logged' = updated.log
        /\ born' = IF pushed
                   THEN Append(kept, [tick |-> trexgame[1].frame_count, edge |-> size.width])
                   ELSE kept
        /\ ticked' = ticked + 1
        /\ UNCHANGED varsExceptGame

(***************************************************************************)
(* The obstacle queue over a long run: nobody plays, the ghost stands.     *)
(***************************************************************************)
ObstacleSizes == { Size_new(16, 32), Size_new(24, 32) }
ObstacleDraws == [cooldown : {10, 49}, roll : {0, 5}, y : {1, 20}, velocity : {4, 7}]

NextObstacles ==
    \E size \in ObstacleSizes, d \in ObstacleDraws :
        /\ trexgame[1].frame_count < MaxFrames
        /\ TRexGame_update_call(Keys_new, Solution_quiet, size, d)

SpecObstacles == InitGame /\ [][NextObstacles]_vars

\* what one TRexGame::update did to the queue, seen from outside
Pushed == trexgame'[1].random # trexgame[1].random
Popped ==
    Len(trexgame[1].enemies) + (IF Pushed THEN 1 ELSE 0) > Len(trexgame'[1].enemies)

\* the distance from the edge an obstacle was spawned at to the barrier
Travel(birth) == birth.edge - DESPAWN_Y_BARRIER

CeilDiv(n, v) == (n + v - 1) \div v

\* C11 (as claimed): an obstacle spawned at x = viewport width with velocity v
\* is removed by the update that runs ceil((width - (-32)) / v) ticks after the
\* update that spawned it, no earlier and no later, whatever its kind.
C11_RemovedAfterCeil ==
    [][ /\ Popped =>
              trexgame[1].frame_count - born[1].tick
                = CeilDiv(Travel(born[1]), trexgame[1].enemies[1].velocity)
        /\ \A i \in 1..Len(born') :
              trexgame'[1].frame_count - born'[i].tick
                <= CeilDiv(Travel(born'[i]), trexgame'[1].enemies[i].velocity)
      ]_vars

\* C11 (amended): an obstacle spawned at x = width with velocity v is at
\* x = width - k * v after k updates, the spawning one included; it is removed
\* by the first update that begins with it at the front of the queue and
\* x < -32, hence never before floor((width + 32) / v) + 1 updates after the
\* one that spawned it, and by exactly that update when it is at the front then.
C11_Lifecycle ==
    [][ /\ Popped =>
              /\ trexgame[1].enemies[1].position.x < DESPAWN_Y_BARRIER
              /\ trexgame[1].frame_count - born[1].tick
                    >= (Travel(born[1]) \div trexgame[1].enemies[1].velocity) + 1
        /\ (trexgame[1].enemies # <<>>
              /\ trexgame[1].frame_count - born[1].tick
                    >= (Travel(born[1]) \div trexgame[1].enemies[1].velocity) + 1)
             => Popped
        /\ \A i \in 1..Len(born') :
              trexgame'[1].enemies[i].position.x
                = born'[i].edge
                    - (trexgame'[1].frame_count - born'[i].tick)
                        * trexgame'[1].enemies[i].velocity
      ]_vars

\* C11 witness: a cactus spawned at width 16 has just been removed, 17 updates
\* after the one that spawned it (48 / 3 = 16 would leave it at x = -32).
C11_Witness ==
    /\ trexgame # None
    /\ trexgame[1].random.pos = 2
    /\ trexgame[1].enemies = <<>>
    /\ trexgame[1].frame_count = 10 + 17 + 1
    /\ ctx[1].size.width = 16

\* C11, the other case: a bird that overtook the cactus ahead of it waits
\* beyond the barrier until the cactus is gone.
C11_WitnessWaiting ==
    /\ trexgame # None
    /\ Len(trexgame[1].enemies) >= 1
    /\ trexgame[1].enemies[1].model.kind = "Bird"
    /\ trexgame[1].enemies[1].position.x
            < DESPAWN_Y_BARRIER - trexgame[1].enemies[1].velocity

\* C12 (as claimed): the queue is sorted by x in spawn order.
C12_QueueSorted ==
    trexgame # None =>
        \A i, j \in 1..Len(trexgame[1].enemies) :
            i < j => trexgame[1].enemies[i].position.x
                        <= trexgame[1].enemies[j].position.x

(***************************************************************************)
(* games/utils.rs: Parabola::step with the failure it can end in.  The     *)
(* division of calc_value panics ("attempt to divide by zero") when it is  *)
(* reached with duration * duration = 0.                                   *)
(***************************************************************************)
\* calc_value reaches its division: the early return was not taken
calc_value_divides(self) == ~(self.time >= self.duration)

Parabola_step_outcome(self) ==
    LET stepped == [self EXCEPT !.time = self.time + 1]
    IN  IF calc_value_divides(stepped) /\ stepped.duration * stepped.duration = 0
        THEN Panic("attempt to divide by zero")
        ELSE Returned(Parabola_step(self))

\* the curves stepped here: durations from 0 on
Curves ==
    { Parabola_new(max, duration) : max \in 0..MaxPeak, duration \in 0..MaxShort }

InitCurve ==
    /\ curve \in { Some(c) : c \in Curves }
    /\ outcome = None
    /\ IdleExceptCurve

step_call ==
    /\ IF outcome = None THEN TRUE ELSE outcome[1].ok
    /\ curve[1].time < curve[1].duration + MaxOverrun
    /\ outcome' = Some(Parabola_step_outcome(curve[1]))
    /\ curve' = IF Parabola_step_outcome(curve[1]).ok
                THEN Some(Parabola_step_outcome(curve[1]).value)
                ELSE curve
    /\ UNCHANGED varsExceptCurve

NextCurve == step_call

SpecCurve == InitCurve /\ [][NextCurve]_vars

\* C13: step() on a curve of duration 0 fails fast.  calc_value returns 0
\* before it divides, so the step returns and the formula does not hold.
C13_ZeroDurationFails ==
    (curve # None /\ outcome # None /\ curve[1].duration = 0) => ~outcome[1].ok

(***************************************************************************)
(* solution.rs: SolutionGenerator::next called over and over, long enough  *)
(* for a phase to run out and the next one to be sampled.                  *)
(***************************************************************************)
\* the values drawn: both phases, the shortest phase, both arms of the LowFreq
\* roll, two keys, and for the HighFreq rolls the lowest values of all
GeneratorDraws ==
    [phase : {29, 30},
     time : {50},
     low : {0, 19},
     key : {1, 4},
     release : {<<0, 0, 0, 0>>, <<1, 0, 1, 1>>},
     release_key : {<<4, 1, 4, 1>>},
     press : {<<0, 0, 0, 0>>, <<4, 1, 0, 3>>},
     press_key : {<<4, 1, 4, 1>>}]

InitGenerator ==
    /\ solgen = Some(SolutionGenerator_new)
    /\ calls = 0
    /\ IdleExceptGenerator

next_call(d) ==
    /\ calls < MaxCalls
    /\ solgen' = Some(SolutionGenerator_next(solgen[1], d))
    /\ calls' = calls + 1
    /\ UNCHANGED varsExceptGenerator

NextGenerator == \E d \in GeneratorDraws : next_call(d)

SpecGenerator == InitGenerator /\ [][NextGenerator]_vars

\* every outcome of the rolls of one HighFreq next(): four release rolls of
\* gen_range(0..2), four press rolls of gen_range(0..5), and the key drawn
HighFreqRolls ==
    [phase : {30}, time : {50}, low : {19}, key : {4},
     release : [1..4 -> 0..1],
     release_key : { <<k, k, k, k>> : k \in 0..4 },
     press : {<<4, 4, 4, 4>>},
     press_key : {<<4, 4, 4, 4>>}]
    \cup
    [phase : {30}, time : {50}, low : {19}, key : {4},
     release : {<<1, 1, 1, 1>>},
     release_key : {<<4, 4, 4, 4>>},
     press : [1..4 -> 0..4],
     press_key : { <<k, k, k, k>> : k \in 0..4 }]

\* the phase lasts over the next call
StaysHighFreq(g) == g.phase = "HighFreq" /\ g.phase_time_left > 0

\* bits of `from` that are not in `to`
Dropped(from, to) == from - BitAnd(from, to)

\* C14 (as claimed): in the HighFreq phase a next() can press a key, and with
\* a key held it can release one: some outcome of its rolls does.
C14_HighFreqActivity ==
    (solgen # None /\ StaysHighFreq(solgen[1])) =>
        /\ \E d \in HighFreqRolls :
              Dropped(SolutionGenerator_next(solgen[1], d).keys.pressing,
                      solgen[1].keys.pressing) # 0
        /\ solgen[1].keys.pressing # 0 =>
              \E d \in HighFreqRolls :
                  Dropped(solgen[1].keys.pressing,
                          SolutionGenerator_next(solgen[1], d).keys.pressing) # 0

(***************************************************************************)
(* trex.rs: TRexGame::update with somebody playing: any of nothing, Space, *)
(* Down and both is held in a tick, the ghost stands or crouches, and the  *)
(* first cactus arrives.                                                   *)
(***************************************************************************)
Pressing(keyset) == [just_pressed |-> 0, pressing |-> keyset]

PlayerKeys ==
    { Keys_new,
      Pressing(Key_mask(Key_Space)),
      Pressing(Key_mask(Key_Down)),
      Pressing(Key_mask(Key_Space) + Key_mask(Key_Down)) }

GhostSolutions == { Solution_quiet, Solution_holding(Key_Down) }

\* viewports of 12 and 16 pixel columns: the cactus spawns onto the player or in front
PlaySizes == { Size_new(12, 32), Size_new(16, 32) }

PlayDraw == [cooldown |-> 10, roll |-> 5, y |-> 20, velocity |-> 4]

NextPlay ==
    \E pressed \in PlayerKeys, sol \in GhostSolutions, size \in PlaySizes :
        /\ trexgame[1].frame_count < MaxPlay
        /\ TRexGame_update_call(pressed, sol, size, PlayDraw)

SpecPlay == InitGame /\ [][NextPlay]_vars

\* the character `trex` overlaps an obstacle of queue `enemies` in frame `frame`
Hit(trex, enemies, frame) ==
    \E i \in 1..Len(enemies) :
        collide(Enemy_sprite(enemies[i], frame), TRex_sprite(trex, frame))

\* the queue `after` is the queue `before` one tick later: the front may have
\* left, one obstacle may have joined at the back, and all have advanced
Advanced(before, after) ==
    \E popped \in {0, 1}, pushed \in {0, 1} :
        /\ Len(after) = Len(before) - popped + pushed
        /\ popped = 1 => before # <<>>
        /\ \A i \in 1..(Len(before) - popped) :
              after[i] = [before[i + popped] EXCEPT !.position.x = @ - before[i + popped].velocity]

\* C15: an update logs "Game Over", once, exactly when the player's sprite
\* overlaps an obstacle's after the tick's physics, despawn, spawn and advance
\* (the ghost's overlap does not count), and the game moves on all the same.
C15_GameOverIffCollision ==
    [][LET before == trexgame[1]
           after == trexgame'[1]
           game == ctx'[1]
       IN  /\ logged' = IF Hit(after.trex, after.enemies, before.frame_count)
                        THEN <<"Game Over">> ELSE <<>>
           /\ after.trex = TRex_update(before.trex, game.keys)
           /\ after.trex_solution =
                  TRex_update(before.trex_solution, Solution_keys(game.solution, 0).value)
           /\ Advanced(before.enemies, after.enemies)
           /\ after.enemy_cooldown = (IF before.enemy_cooldown = 0
                                      THEN PlayDraw.cooldown ELSE before.enemy_cooldown) - 1
           /\ after.frame_count = before.frame_count + 1]_vars

\* the player has run into the cactus and the game goes on
C15_Witness ==
    /\ trexgame # None
    /\ trexgame[1].frame_count > 11
    /\ logged = <<"Game Over">>
    /\ Hit(trexgame[1].trex, trexgame[1].enemies, trexgame[1].frame_count - 1)

\* the player jumps the cactus that the ghost runs into: nothing is logged
C15_WitnessGhost ==
    /\ trexgame # None
    /\ trexgame[1].frame_count > 0
    /\ logged = <<>>
    /\ Hit(trexgame[1].trex_solution, trexgame[1].enemies, trexgame[1].frame_count - 1)
    /\ ~Hit(trexgame[1].trex, trexgame[1].enemies, trexgame[1].frame_count - 1)

\* C16: update() runs player physics, ghost physics, despawn, spawn, advance
\* and collision in this order: the front leaves exactly when the previous
\* tick left it beyond the barrier (it is looked at before this tick's
\* advance), an obstacle spawned in a tick ends that tick at
\* x = width - velocity, and the collision is taken with the obstacles where
\* this tick's advance put them and the player where this tick's physics did.
C16_StepOrder ==
    [][LET before == trexgame[1]
           after == trexgame'[1]
           game == ctx'[1]
           last_one == after.enemies[Len(after.enemies)]
       IN  /\ Popped <=> (before.enemies # <<>>
                            /\ before.enemies[1].position.x < DESPAWN_Y_BARRIER)
           /\ Pushed <=> before.enemy_cooldown = 0
           /\ Pushed => last_one.position.x = game.size.width - last_one.velocity
           /\ \A i \in 1..Len(after.enemies) :
                 \/ Pushed /\ i = Len(after.enemies)
                 \/ \E j \in 1..Len(before.enemies) :
                        after.enemies[i].position.x
                            = before.enemies[j].position.x - before.enemies[j].velocity
           /\ (logged' # <<>>) <=>
                 Hit(TRex_update(before.trex, game.keys), after.enemies, before.frame_count)
      ]_vars

\* a cactus spawned onto a 12 pixel viewport is advanced to x = 9 and run into
\* by the standing player in its spawn tick
C16_Witness ==
    /\ trexgame # None
    /\ trexgame[1].frame_count = 11
    /\ Len(trexgame[1].enemies) = 1
    /\ trexgame[1].enemies[1].position.x = 12 - 3
    /\ trexgame[1].trex.jump = None
    /\ logged = <<"Game Over">>

\* the first cactus has left: the tick before left it at x < -32
C16_WitnessDespawned ==
    /\ trexgame # None
    /\ trexgame[1].random.pos = 4
    /\ Len(trexgame[1].enemies) = 1
    /\ Len(born) = 1
    /\ born[1].tick = 20

(***************************************************************************)
(* trex.rs: one TRex updated tick after tick with any of Space and Down    *)
(* held or just pressed.                                                   *)
(***************************************************************************)
KeySets == {0, Key_mask(Key_Space), Key_mask(Key_Down), Key_mask(Key_Space) + Key_mask(Key_Down)}

\* what press(), release() and update() can leave of Space and Down: a key
\* pressed and released within a tick is just pressed and no longer held
TRexKeys == [just_pressed : KeySets, pressing : KeySets]

InitTRex ==
    /\ dino = Some(TRexGame_new.trex)
    /\ fed = None
    /\ since = 0
    /\ IdleExceptTRex

\* one TRex::update.  since counts the updates made after the one that
\* assigned the Parabola now in jump.
TRex_update_call(pressed) ==
    LET updated == TRex_update(dino[1], pressed)
        kept == /\ dino[1].jump # None
                /\ ~Parabola_finished(Parabola_step(dino[1].jump[1]))
    IN  /\ dino' = Some(updated)
        /\ fed' = Some(pressed)
        /\ since' = IF kept THEN since + 1 ELSE 0
        /\ UNCHANGED varsExceptTRex

NextTRex == \E pressed \in TRexKeys : TRex_update_call(pressed)

SpecTRex == InitTRex /\ [][NextTRex]_vars

\* C17: with no curve active, Space pressing starts one in that tick at time 0
\* and height 0, of (6, 8) if Down is pressing in that tick and of (25, 22)
\* otherwise; without Space the character stays on the ground; crouching is
\* pressing(Down) after every tick.
C17_JumpStart ==
    [][LET before == dino[1]
           after == dino'[1]
           pressed == fed'[1]
           down == Keys_pressing(pressed, Key_Down)
           space == Keys_pressing(pressed, Key_Space)
       IN  /\ after.crouching = down
           /\ (before.jump = None /\ space) =>
                  /\ after.jump # None
                  /\ after.jump[1].max = (IF down THEN 6 ELSE 25)
                  /\ after.jump[1].duration = (IF down THEN 8 ELSE 22)
                  /\ after.jump[1].time = 0
                  /\ Parabola_value(after.jump[1]) = 0
                  /\ TRex_pos(after)[2] = 0
           /\ (before.jump = None /\ ~space) => after.jump = None
      ]_vars

\* a character that stood upright has started the low jump with Down and Space
C17_Witness ==
    /\ dino # None
    /\ fed # None
    /\ dino[1].jump = Some(Parabola_new(6, 8))
    /\ dino[1].crouching
    /\ fed[1].pressing = Key_mask(Key_Space) + Key_mask(Key_Down)

\* the same when both keys were pressed and released within the tick
C17_WitnessTap ==
    /\ dino # None
    /\ fed # None
    /\ dino[1].jump = Some(Parabola_new(6, 8))
    /\ dino[1].crouching
    /\ fed[1] = [just_pressed |-> Key_mask(Key_Space) + Key_mask(Key_Down), pressing |-> 0]

\* a character in the air crouches
C17_WitnessAirborne ==
    /\ dino # None
    /\ dino[1].jump # None
    /\ dino[1].jump[1].max = 25
    /\ dino[1].jump[1].time = 11
    /\ dino[1].crouching

\* C18: in the air no input restarts or alters the curve: peak and duration
\* stay, the elapsed time grows by 1 per tick, and the curve is cleared by the
\* update made `duration` ticks after the one that started it, not before
\* (that update starts the next curve if Space is pressing).
C18_AirborneCurve ==
    [][LET before == dino[1]
           after == dino'[1]
           pressed == fed'[1]
           curve_before == before.jump[1]
       IN  before.jump # None =>
              /\ before.jump[1].time = since
              /\ IF since + 1 < curve_before.duration
                 THEN /\ after.jump # None
                      /\ after.jump[1].max = curve_before.max
                      /\ after.jump[1].duration = curve_before.duration
                      /\ after.jump[1].time = curve_before.time + 1
                      /\ since' = since + 1
                 ELSE /\ since + 1 = curve_before.duration
                      /\ since' = 0
                      /\ after.jump = IF Keys_pressing(pressed, Key_Space)
                                      THEN Some(Parabola_new(IF after.crouching THEN 6 ELSE 25,
                                                             IF after.crouching THEN 8 ELSE 22))
                                      ELSE None
      ]_vars

\* the high jump is in its last tick in the air, begun upright, now crouching
\* with Space held
C18_Witness ==
    /\ dino # None
    /\ fed # None
    /\ dino[1].jump # None
    /\ dino[1].jump[1].max = 25
    /\ since = 21
    /\ dino[1].crouching
    /\ Keys_pressing(fed[1], Key_Space)

(***************************************************************************)
(* trex.rs: TRexGame::update when the player presses what the solution     *)
(* says for the tick: GameContext.keys is solution.keys(0).                *)
(***************************************************************************)
\* keys(0) is empty, or has Space or Down just pressed or held
MirrorSolutions ==
    { Solution_quiet,
      Solution_pressing(Key_Space), Solution_holding(Key_Space),
      Solution_pressing(Key_Down), Solution_holding(Key_Down) }

NextMirror ==
    \E sol \in MirrorSolutions :
        /\ trexgame[1].frame_count < MaxMirror
        /\ TRexGame_update_call(Solution_keys(sol, 0).value, sol, Size_new(12, 32), PlayDraw)

SpecMirror == InitGame /\ [][NextMirror]_vars

\* C19: fed solution.keys(0) in every tick, the player is in the ghost's state
\* after every tick: the same curve (peak, duration, elapsed time, value) or
\* none, and the same crouching flag.
C19_GhostEqualsPlayer ==
    trexgame # None =>
        /\ trexgame[1].trex_solution.crouching = trexgame[1].trex.crouching
        /\ trexgame[1].trex_solution.jump = trexgame[1].trex.jump
        /\ TRex_pos(trexgame[1].trex_solution) = TRex_pos(trexgame[1].trex)

\* both are half way up the high jump, crouching
C19_Witness ==
    /\ trexgame # None
    /\ trexgame[1].frame_count > 0
    /\ trexgame[1].trex_solution.jump # None
    /\ trexgame[1].trex_solution.jump[1].time = 5
    /\ trexgame[1].trex_solution.jump[1].value > 0
    /\ trexgame[1].trex_solution.crouching
    /\ trexgame[1].trex.jump = trexgame[1].trex_solution.jump

(***************************************************************************)
(* main.rs and trex.rs: the program ticking with nobody at the keys, and   *)
(* what TRexGame::trex_solution would return in every tick, asked after    *)
(* the game's update and before Solution::update.                          *)
(***************************************************************************)
\* the programs whose solution starts with nothing pressed or with Space, all
\* later slots empty, and the one whose slots press and release Space in turn
ReplayStarts ==
    { app \in App_new :
        \/ app.solution \in {Solution_quiet, Solution_pressing(Key_Space)}
        \/ app.solution.keys[SOLUTION_SIZE - 1] # app.solution.keys[SOLUTION_SIZE]
             /\ app.solution.keys[1] # Keys_new
             /\ app.solution.generator.phase_time_left = 50 - ((SOLUTION_SIZE - 1) % 51) }

\* what the generator draws in a tick: a LowFreq roll that presses Space or
\* Down (or releases what is held), or one that leaves the keys alone
ReplayDraws == { DrawWith(0, Key_Space), DrawWith(0, Key_Down), DrawWith(19, Key_Space) }

ReplayCanvas == Size_new(8, 10)

InitReplay ==
    /\ replay \in { Some(app) : app \in ReplayStarts }
    /\ foreseen = <<>>
    /\ IdleExceptReplay

\* the k asked: the next ticks, a whole jump, the end of the window and past it
ReplayHorizons ==
    (0..3) \cup {22, 23} \cup ((SOLUTION_SIZE - 1) .. (SOLUTION_SIZE + MaxBeyond))

\* trex_solution(solution, k) for every k asked, in the order of ReplayHorizons
Forecasts(self, sol, tick) ==
    LET RECURSIVE Listed(_)
        Listed(ks) ==
            IF ks = {} THEN <<>>
            ELSE LET k == CHOOSE x \in ks : \A y \in ks : x <= y
                 IN  <<[tick |-> tick, k |-> k,
                        value |-> TRexGame_trex_solution(self, sol, k)]>>
                        \o Listed(ks \ {k})
    IN  Listed(ReplayHorizons)

\* one tick of App::ui.  In the first MaxReplay ticks trex_solution is asked
\* after the game's update and before Solution::update, and the generator
\* draws anything of ReplayDraws; in the ticks after them it leaves the keys
\* alone, until the forecasts made for the end of the window are due.
replay_tick(g, overflow_checks) ==
    LET drawn == App_trex_canvas(replay[1], ReplayCanvas, PlayDraw, overflow_checks).value
        ticked1 == App_ui(replay[1], ReplayCanvas, PlayDraw, g, overflow_checks)
        tick == replay[1].trex.frame_count
        asking == tick < MaxReplay
    IN  /\ tick < MaxReplay + SOLUTION_SIZE
        /\ asking \/ g = DrawWith(19, Key_Space)
        /\ ticked1.ok
        /\ replay' = Some(ticked1.value)
        /\ foreseen' = IF asking
                       THEN foreseen \o Forecasts(drawn.trex, drawn.solution, tick)
                       ELSE foreseen
        /\ UNCHANGED varsExceptReplay

NextReplay == \E g \in ReplayDraws, overflow_checks \in BOOLEAN : replay_tick(g, overflow_checks)

SpecReplay == InitReplay /\ [][NextReplay]_vars

\* the forecast f is for the tick whose game update was the last one made
Due(f) == f.tick + f.k = replay[1].trex.frame_count - 1

\* C20: what trex_solution(solution, k) returned k ticks ago, for k below the
\* capacity, is the ghost's state now; asked for k at or above the capacity
\* it fails with the out-of-range error.
C20_ForecastsComeTrue ==
    \A j \in 1..Len(foreseen) :
        IF foreseen[j].k < SOLUTION_SIZE
        THEN /\ foreseen[j].value.ok
             /\ Due(foreseen[j]) =>
                   foreseen[j].value = Returned(replay[1].trex.trex_solution)
        ELSE foreseen[j].value = Panic("Index out of bounds")

\* the ghost crouches in the air, as foreseen capacity - 1 ticks ago, in the
\* tick after the generator had pressed Down; it stood when that was foreseen
C20_Witness ==
    /\ replay # None
    /\ replay[1].trex.trex_solution.jump # None
    /\ replay[1].trex.trex_solution.crouching
    /\ \E j \in 1..Len(foreseen) :
          /\ foreseen[j].k = SOLUTION_SIZE - 1
          /\ foreseen[j].tick = 1
          /\ Due(foreseen[j])
          /\ foreseen[j].value = Returned(replay[1].trex.trex_solution)

\* a whole jump ahead: the ghost has landed as foreseen 22 ticks ago, in the
\* tick in which it jumped
C20_WitnessJump ==
    /\ replay # None
    /\ replay[1].trex.frame_count = 23
    /\ replay[1].trex.trex_solution.jump = None
    /\ \E j \in 1..Len(foreseen) :
          /\ foreseen[j].k = 22 /\ foreseen[j].tick = 0 /\ Due(foreseen[j])
          /\ foreseen[j].value = Returned(replay[1].trex.trex_solution)

(***************************************************************************)
(* main.rs: the loop of App::run with one program: key events are handled  *)
(* as they come, any number of them between two ticks, and App::ui ticks.  *)
(* taps keeps, for the events since the last tick (cur) and for those of   *)
(* the interval before (prev), what happened to each key: "pressed" after  *)
(* a Press, "tapped" after a Press and a later Release with no Press       *)
(* after it.                                                               *)
(***************************************************************************)
NoTaps == [k \in EventKeys |-> "none"]

InitLoop ==
    /\ live \in { Some(app) : app \in { r \in ReplayStarts : r.solution = Solution_quiet } }
    /\ taps = [cur |-> NoTaps, prev |-> NoTaps]
    /\ IdleExceptLoop

live_handle_key(kind, key) ==
    /\ live' = Some(App_handle_key(live[1], kind, key))
    /\ taps' = [taps EXCEPT !.cur[key] =
                    CASE kind = "Press" -> "pressed"
                      [] kind = "Release" -> (IF @ = "none" THEN "none" ELSE "tapped")
                      [] kind = "Repeat" -> @]
    /\ UNCHANGED varsExceptLoop

\* the canvas of the replay and one of a single column, whose width in
\* pixels overflows
LoopCanvases == { ReplayCanvas, Size_new(1, 10) }

\* one tick; the program that panics in it makes no further step
live_ui(canvas_size, overflow_checks) ==
    LET ticked1 == App_ui(live[1], canvas_size, PlayDraw, DrawWith(19, Key_Space),
                          overflow_checks)
    IN
    /\ live[1].trex.frame_count < MaxLoop
    /\ ticked1.ok
    /\ live' = Some(ticked1.value)
    /\ taps' = [cur |-> NoTaps, prev |-> taps.cur]
    /\ UNCHANGED varsExceptLoop

NextLoop ==
    \/ \E kind \in KeyEventKinds, key \in EventKeys : live_handle_key(kind, key)
    \/ \E canvas_size \in LoopCanvases, overflow_checks \in BOOLEAN :
            live_ui(canvas_size, overflow_checks)

SpecLoop == InitLoop /\ [][NextLoop]_vars

\* what the game's update of this step was given to read
Read(keyset, key) ==
    BitAnd(keyset.just_pressed, Key_mask(key)) # 0 \/ BitAnd(keyset.pressing, Key_mask(key)) # 0

\* C21: a key pressed and released between two ticks is read as pressing by
\* the next game update (the player crouches, or jumps when on the ground),
\* and with no key event after that tick it is read as not pressing by the
\* update after (the player stands up; no jump starts).
C21_TapIsSeenOnce ==
    [][live'[1].trex.frame_count = live[1].trex.frame_count + 1 =>
        /\ taps.cur[Key_Down] = "tapped" =>
              /\ Read(live[1].keys, Key_Down)
              /\ live'[1].trex.trex.crouching
        /\ taps.cur[Key_Space] = "tapped" =>
              /\ Read(live[1].keys, Key_Space)
              /\ live'[1].trex.trex.jump # None
        /\ (taps.prev[Key_Down] = "tapped" /\ taps.cur = NoTaps) =>
              /\ ~Read(live[1].keys, Key_Down)
              /\ ~live'[1].trex.trex.crouching
        /\ (taps.prev[Key_Space] = "tapped" /\ taps.cur = NoTaps) =>
              /\ ~Read(live[1].keys, Key_Space)
              /\ (live[1].trex.trex.jump = None => live'[1].trex.trex.jump = None)
        /\ live'[1].keys.just_pressed = 0
      ]_vars

\* Space was tapped before the last tick: nothing is held and the player has
\* just left the ground
C21_Witness ==
    /\ live # None
    /\ taps.prev[Key_Space] = "tapped"
    /\ taps.cur = NoTaps
    /\ live[1].keys = Keys_new
    /\ live[1].trex.trex.jump = Some(Parabola_new(25, 22))

\* C22: an update with frame_count below 100 spawns a cactus; a cactus is
\* spawned with y = 0 and velocity 3, a bird with y in 1..20 and velocity in
\* 4..7; velocity, y and kind of an obstacle in the queue never change.
C22_SpawnTypes ==
    [][LET before == trexgame[1]
           after == trexgame'[1]
           spawned == after.enemies[Len(after.enemies)]
           popped == IF Popped THEN 1 ELSE 0
           kept == Len(after.enemies) - (IF Pushed THEN 1 ELSE 0)
       IN  /\ Pushed =>
                /\ before.frame_count < 100 => spawned.model.kind = "Cactus"
                /\ spawned.model.kind \in {"Cactus", "Bird"}
                /\ spawned.model.kind = "Cactus" =>
                      spawned.position.y = 0 /\ spawned.velocity = 3
                /\ spawned.model.kind = "Bird" =>
                      spawned.position.y \in 1..20 /\ spawned.velocity \in 4..7
           /\ \A i \in 1..kept :
                /\ after.enemies[i].velocity = before.enemies[i + popped].velocity
                /\ after.enemies[i].position.y = before.enemies[i + popped].position.y
                /\ after.enemies[i].model = before.enemies[i + popped].model
      ]_vars

\* the update of tick 100 has spawned the first bird that can be, behind a cactus
C22_Witness ==
    /\ trexgame # None
    /\ trexgame[1].frame_count = 101
    /\ Len(trexgame[1].enemies) >= 2
    /\ trexgame[1].enemies[Len(trexgame[1].enemies)].model.kind = "Bird"
    /\ trexgame[1].enemies[Len(trexgame[1].enemies)].position.y = 20
    /\ trexgame[1].enemies[Len(trexgame[1].enemies)].velocity = 7
    /\ born[Len(born)].tick = 100

(***************************************************************************)
(* trex.rs: the spawn countdown over a long run.  last_spawn keeps the     *)
(* tick counter of the latest update that spawned.                         *)
(***************************************************************************)
\* the countdown drawn is the shortest, the longest or one between
SpawnDraws == [cooldown : {10, 30, 49}, roll : {0, 5}, y : {20}, velocity : {4}]

InitSpawns ==
    /\ world = Some(TRexGame_new)
    /\ last_spawn = None
    /\ IdleExceptSpawns

\* one TRexGame::update: it has spawned if it has drawn from the generator
spawns_update_call(size, d) ==
    LET game_ctx == [size |-> size, keys |-> Keys_new, solution |-> Solution_quiet]
        updated == TRexGame_update(world[1], game_ctx, d).self
    IN  /\ world[1].frame_count < MaxFrames
        /\ world' = Some(updated)
        /\ last_spawn' = IF updated.random # world[1].random
                         THEN Some([tick |-> world[1].frame_count, edge |-> size.width])
                         ELSE last_spawn
        /\ UNCHANGED varsExceptSpawns

NextSpawns == \E size \in ObstacleSizes, d \in SpawnDraws : spawns_update_call(size, d)

SpecSpawns == InitSpawns /\ [][NextSpawns]_vars

\* C23: a tick spawns at most one obstacle, at x = viewport width; the first
\* spawn is made by the update with tick counter 10 and two consecutive
\* spawns are 10 to 49 ticks apart; the countdown is not decremented at 0 and
\* is within 0..48 once the first spawn is made.
C23_SpawnTiming ==
    [][LET before == world[1]
           after == world'[1]
           spawning == after.random # before.random
           spawned == after.enemies[Len(after.enemies)]
       IN  /\ Len(after.enemies) <= Len(before.enemies) + 1
           /\ spawning <=> before.enemy_cooldown = 0
           /\ spawning =>
                /\ Len(after.enemies) >= 1
                /\ spawned.position.x + spawned.velocity = last_spawn'[1].edge
                /\ IF last_spawn = None
                   THEN before.frame_count = 10
                   ELSE before.frame_count - last_spawn[1].tick \in 10..49
                /\ after.enemy_cooldown \in 9..48
           /\ ~spawning =>
                /\ before.enemy_cooldown > 0
                /\ after.enemy_cooldown = before.enemy_cooldown - 1
                /\ last_spawn # None => before.frame_count - last_spawn[1].tick < 49
                /\ last_spawn = None => before.frame_count < 10
           /\ after.enemy_cooldown >= 0
           /\ last_spawn' # None => after.enemy_cooldown \in 0..48
      ]_vars

\* two spawns 49 ticks apart: the longest countdown has run out
C23_Witness ==
    /\ world # None
    /\ last_spawn # None
    /\ last_spawn[1].tick = 10 + 49
    /\ world[1].random.pos = 4
    /\ world[1].frame_count = 60

\* two spawns 10 ticks apart
C23_WitnessShortest ==
    /\ world # None
    /\ last_spawn # None
    /\ last_spawn[1].tick = 20
    /\ world[1].random.pos = 4
    /\ world[1].frame_count = 21
    /\ Len(world[1].enemies) = 2

(***************************************************************************)
(* image.rs: Clip, Sprite::rect.  A sprite is placed on a canvas given by  *)
(* its origin and size, and rect() is asked for the part to draw.          *)
(***************************************************************************)
AsU16(n) == n % 65536

Clip_new(window_size, range) ==
    IF range.end <= 0 \/ window_size <= range.start THEN None
    ELSE Some([image_offset |-> AsU16(Max2(0 - range.start, 0)),
               position |-> [start |-> AsU16(Max2(range.start, 0)),
                             end |-> AsU16(Min2(range.end, window_size))]])

Sprite_rect(self, origin, canvas_size) ==
    LET rect == bounding_box(self)
        x_clip == Clip_new(canvas_size.width, Line_translate(rect.x, origin.x))
        y_clip == Clip_new(canvas_size.width,
                           Line_translate(rect.y, origin.y - self.position.y * 2))
    IN  IF x_clip = None THEN None
        ELSE IF y_clip = None THEN None
        ELSE Some([image |-> self.image,
                   image_offset |-> Pos_new(x_clip[1].image_offset, y_clip[1].image_offset),
                   rect |-> [x |-> x_clip[1].position, y |-> y_clip[1].position]])

\* canvases wider than high, higher than wide, and square
RectCanvases == { Size_new(BoxMaxWidth, 2), Size_new(2, BoxMaxWidth), Size_new(3, 3) }

\* the canvas origin: the corner, or as App::trex_canvas sets it, (x, height - 1)
RectOrigins(canvas_size) == { Pos_new(0, 0), Pos_new(1, canvas_size.height - 1) }

InitRect ==
    /\ placed \in { Some([sprite |-> s, origin |-> o, canvas_size |-> c]) :
                        s \in BoxSprites, c \in RectCanvases,
                        o \in UNION { RectOrigins(cc) : cc \in RectCanvases } }
    /\ clipped = None
    /\ IdleExceptRect

rect_call ==
    /\ clipped = None
    /\ clipped' = Some(Sprite_rect(placed[1].sprite, placed[1].origin, placed[1].canvas_size))
    /\ UNCHANGED <<placed, varsExceptRect>>

NextRect == rect_call

SpecRect == InitRect /\ [][NextRect]_vars

\* the bounding box as the canvas sees it: x moved by the origin, y mirrored
\* about the origin's row
Projected(s, origin) ==
    [x |-> Line_translate(bounding_box(s).x, origin.x),
     y |-> Line_translate(bounding_box(s).y, origin.y - s.position.y * 2)]

\* C25 (as claimed): rect() returns None exactly when the projected rectangle
\* lies entirely outside [0, width) x [0, height); otherwise its rectangle is
\* not empty, lies within [0, width) on x and [0, height) on y, and
\* image_offset plus its size stays within the image on both axes.
C25_ClipsBothAxes ==
    clipped # None =>
        LET s == placed[1].sprite
            canvas_size == placed[1].canvas_size
            p == Projected(s, placed[1].origin)
            outside == \/ p.x.end <= 0 \/ canvas_size.width <= p.x.start
                       \/ p.y.end <= 0 \/ canvas_size.height <= p.y.start
            r == clipped[1][1]
        IN  /\ clipped[1] = None <=> outside
            /\ clipped[1] # None =>
                 /\ 0 <= r.rect.x.start /\ r.rect.x.start < r.rect.x.end
                 /\ r.rect.x.end <= canvas_size.width
                 /\ 0 <= r.rect.y.start /\ r.rect.y.start < r.rect.y.end
                 /\ r.rect.y.end <= canvas_size.height
                 /\ r.image_offset.x + (r.rect.x.end - r.rect.x.start) <= Image_width(s.image)
                 /\ r.image_offset.y + (r.rect.y.end - r.rect.y.start) <= Image_height(s.image)


\* the canvas origin App::trex_canvas draws the game with
CanvasOrigin(size) == Pos_new(20, size.height - 1)

\* what PixelCanvas::draw gets from rect() for the obstacle in frame `frame`
Enemy_rect(enemy, frame, size) ==
    Sprite_rect(Enemy_sprite(enemy, frame), CanvasOrigin(size), size)

\* C24 (as claimed): the obstacle that despawn removes is entirely off the
\* canvas: rect() with the canvas origin of the application returns None for
\* it, on the canvas of the tick before (where it was last drawn) and on the
\* canvas of this tick.
C24_RemovedOffCanvas ==
    [][Popped =>
          /\ Enemy_rect(trexgame[1].enemies[1], trexgame[1].frame_count, ctx[1].size) = None
          /\ Enemy_rect(trexgame[1].enemies[1], trexgame[1].frame_count, ctx'[1].size) = None
      ]_vars

(***************************************************************************)
(* image.rs and trex.rs: the sprites of the game, as collide() compares    *)
(* them and as SpriteRect::draw paints them on the canvas.                 *)
(***************************************************************************)
\* the canvas pixels SpriteRect::draw paints
SpriteRect_draw(self) ==
    { <<x, y>> \in Line_range(self.rect.x) \X Line_range(self.rect.y) :
        LET image_y == self.image_offset.y + (y - self.rect.y.start)
            bitmap == ShiftRight(self.image.pixels[image_y + 1], self.image_offset.x)
        IN  ShiftRight(bitmap, x - self.rect.x.start) % 2 = 1 }

\* what PixelCanvas::draw paints for a sprite
PixelCanvas_draw(s, size) ==
    LET r == Sprite_rect(s, CanvasOrigin(size), size)
    IN  IF r = None THEN {} ELSE SpriteRect_draw(r[1])

\* a canvas that holds every sprite below whole
DrawnCanvas == Size_new(64, 64)

RECURSIVE Parabola_at(_, _, _)
Parabola_at(max, duration, time) ==
    IF time = 0 THEN Parabola_new(max, duration)
    ELSE Parabola_step(Parabola_at(max, duration, time - 1))

\* the states of a TRex: on the ground, or anywhere on one of its two jumps
TRexStates ==
    [crouching : BOOLEAN,
     jump : {None} \cup { Some(Parabola_at(25, 22, t)) : t \in 0..21 }
                   \cup { Some(Parabola_at(6, 8, t)) : t \in 0..7 }]

DrawnFrames == {0, 5}

PlayerSprites == { TRex_sprite(t, f) : t \in TRexStates, f \in DrawnFrames }

\* a cactus or a bird anywhere from behind the player to in front of it
DrawnEnemies ==
    { [position |-> Pos_new(x, 0), velocity |-> 3, model |-> EnemyModel_Cactus(0)] :
          x \in (0 - MaxReach)..MaxReach }
    \cup
    { [position |-> Pos_new(x, y), velocity |-> 4, model |-> EnemyModel_Bird] :
          x \in (0 - MaxReach)..MaxReach, y \in {1, 10, 20} }

EnemySprites == { Enemy_sprite(e, f) : e \in DrawnEnemies, f \in DrawnFrames }

InitDrawn ==
    /\ a \in PlayerSprites
    /\ b \in EnemySprites
    /\ collided = None
    /\ IdleExceptSprite

SpecDrawn == InitDrawn /\ [][NextSprite]_vars

\* rect() keeps the whole image
Unclipped(s, size) ==
    LET r == Sprite_rect(s, CanvasOrigin(size), size)
    IN  /\ r # None
        /\ r[1].image_offset = Pos_new(0, 0)
        /\ r[1].rect.x.end - r[1].rect.x.start = Image_width(s.image)
        /\ r[1].rect.y.end - r[1].rect.y.start = Image_height(s.image)

\* C26 (as claimed): the player's sprite and an obstacle's, both drawn whole
\* on one canvas, collide exactly when they paint a common pixel.
C26_CollisionAsDrawn ==
    (collided # None /\ Unclipped(a, DrawnCanvas) /\ Unclipped(b, DrawnCanvas)) =>
        (collided[1].ab <=>
            PixelCanvas_draw(a, DrawnCanvas) \cap PixelCanvas_draw(b, DrawnCanvas) # {})

(***************************************************************************)
(* trex.rs: two TRexGames side by side.  Both start from new(), hence from *)
(* the same seed, and see the same viewport in every tick; as long as      *)
(* their generators stand at the same place the same numbers are drawn.    *)
(* The live keys differ freely between the two; the Solution differs       *)
(* freely too unless the two share their buffer.                           *)
(***************************************************************************)
TwinDraws == { PlayDraw, [PlayDraw EXCEPT !.cooldown = 12] }

\* what is live in the two games: anything in the one, nothing or Down in the other
TwinKeys == PlayerKeys \X { Keys_new, Pressing(Key_mask(Key_Down)) }

InitTwin ==
    /\ \E shared \in BOOLEAN :
          twins = Some([one |-> TRexGame_new, other |-> TRexGame_new,
                        shared |-> shared,
                        keys |-> <<Keys_new, Keys_new>>, differed |-> FALSE])
    /\ IdleExceptTwin

\* one tick of both games
twin_update(size, d, pressed, sols) ==
    LET t == twins[1]
        one == TRexGame_update(t.one, [size |-> size, keys |-> pressed[1],
                                       solution |-> sols[1]], d).self
        other == TRexGame_update(t.other, [size |-> size, keys |-> pressed[2],
                                           solution |-> sols[2]], d).self
    IN  /\ t.one.frame_count < MaxTwin
        /\ t.one.random = t.other.random
        /\ t.shared => sols[1] = sols[2]
        /\ twins' = Some([t EXCEPT !.one = one, !.other = other, !.keys = pressed,
                                   !.differed = @ \/ sols[1] # sols[2]])
        /\ UNCHANGED varsExceptTwin

NextTwin ==
    \E size \in PlaySizes, d \in TwinDraws,
       pressed \in TwinKeys, sols \in GhostSolutions \X GhostSolutions :
        twin_update(size, d, pressed, sols)

SpecTwin == InitTwin /\ [][NextTwin]_vars

\* the obstacle world of a game
Obstacles(g) ==
    [enemies |-> g.enemies, enemy_cooldown |-> g.enemy_cooldown,
     frame_count |-> g.frame_count, random |-> g.random]

\* C27: two runs from the same seed over the same viewport widths have the
\* same obstacle queue, spawn countdown, tick counter and generator after
\* every tick, whatever keys are live in each and whatever each Solution
\* holds; and when the two replay the same Solution their ghosts are in the
\* same state as well, whatever keys are live.
C27_ObstaclesIgnorePlayer ==
    LET t == twins[1]
    IN  /\ Obstacles(t.one) = Obstacles(t.other)
        /\ t.shared => t.one.trex_solution = t.other.trex_solution

\* after the first cactus was pushed the two players are in different states,
\* one in the air and one crouching, and the ghosts differed on the way
C27_Witness ==
    LET t == twins[1]
    IN  /\ t.one.enemies # <<>>
        /\ t.one.trex.jump # None
        /\ t.other.trex.crouching /\ t.other.trex.jump = None
        /\ t.differed
        /\ t.one.trex_solution # t.other.trex_solution

\* the two replay one Solution under different live keys, the ghost crouches
C27_WitnessGhost ==
    LET t == twins[1]
    IN  /\ t.shared
        /\ t.one.trex # t.other.trex
        /\ t.keys[1] # t.keys[2]
        /\ t.one.trex_solution.crouching
        /\ t.one.enemies # <<>>

(***************************************************************************)
(* trex.rs: the obstacle queue as the ticks continue.  App::run calls      *)
(* terminal.draw, and with it TRexGame::update, in every turn of its loop: *)
(* a tick that can happen does happen.  The viewport keeps the width of    *)
(* the first tick.                                                         *)
(***************************************************************************)
DrainDraws == [cooldown : {10, 49}, roll : {0, 5}, y : {20}, velocity : {4, 7}]

NextDrain ==
    \E size \in ObstacleSizes, d \in DrainDraws :
        /\ trexgame[1].frame_count < MaxDrain
        /\ ctx # None => ctx[1].size = size
        /\ TRexGame_update_call(Keys_new, Solution_quiet, size, d)

\* a tick of NextDrain as the count of the calls shows it: every call counts
DrainTick == trexgame[1].frame_count < MaxDrain /\ ticked' = ticked + 1

SpecDrain == InitGame /\ [][NextDrain]_vars /\ WF_ticked(DrainTick)

\* the obstacle pushed in tick t0 is in the queue
Queued(t0) == \E i \in 1..Len(born) : born[i].tick = t0

\* the ticks a cactus needs from x = width to beyond the barrier
Span(width) == ((width - DESPAWN_Y_BARRIER) \div 3) + 1

\* ticks early enough for an obstacle pushed then to leave within MaxDrain ticks
Early(t0) == ctx # None /\ t0 + Span(ctx[1].size.width) + MaxWait < MaxDrain

\* C28: with the viewport width fixed and the ticks continuing, every
\* obstacle pushed to the queue is removed from it later, although only the
\* front obstacle is looked at and one obstacle at most is removed in a tick;
\* and the queue never holds more than Span(width) / 10 + 1 obstacles.
C28_QueueDrains ==
    /\ \A t0 \in 0..MaxDrain : (Queued(t0) /\ Early(t0)) ~> ~Queued(t0)
    /\ [](ctx # None =>
            Len(trexgame[1].enemies) <= (Span(ctx[1].size.width) \div 10) + 1)

\* C28 witness: before any bird flies three obstacles have been pushed, which
\* the generator shows, and two of them are gone from the queue again
C28_Witness ==
    /\ trexgame # None
    /\ trexgame[1].frame_count < 100
    /\ trexgame[1].random.pos = 2 * 3
    /\ Len(trexgame[1].enemies) = 1
    /\ ~Queued(10)

\* C28, the waiting case: a bird pushed in tick 100 is beyond the barrier
\* behind a cactus, two obstacles in the queue
C28_WitnessBird ==
    /\ trexgame # None
    /\ Queued(100) /\ Early(100)
    /\ Len(trexgame[1].enemies) = 2
    /\ trexgame[1].enemies[2].model.kind = "Bird"
    /\ trexgame[1].enemies[2].position.x < DESPAWN_Y_BARRIER

(***************************************************************************)
(* trex.rs: the player and the ghost each on their own keys: the player    *)
(* holds nothing, Space, Down or both, the ghost is fed a keys(0) that is  *)
(* empty or holds Space: the generator never holds two keys, so keys(0)    *)
(* cannot start the ghost's low jump.                                      *)
(***************************************************************************)
HeightSolutions == { Solution_quiet, Solution_holding(Key_Space) }

NextHeights ==
    \E pressed \in PlayerKeys, sol \in HeightSolutions :
        /\ trexgame[1].frame_count < MaxHeights
        /\ TRexGame_update_call(pressed, sol, Size_new(12, 32), PlayDraw)

SpecHeights == InitGame /\ [][NextHeights]_vars

\* the height of a TRex: the y of pos()
Height(trex) == TRex_pos(trex)[2]

\* what C29 says of one TRex
HeightInRange(trex) ==
    /\ trex.jump = None => Height(trex) = 0
    /\ Height(trex) \in 0..25
    /\ trex.jump # None =>
          LET p == trex.jump[1]
          IN  /\ <<p.max, p.duration>> \in { <<25, 22>>, <<6, 8>> }
              /\ p.time < p.duration
              /\ p.max = 6 => Height(trex) \in 0..6

\* C29: after every tick, for the player and for the ghost: the height is 0
\* when no curve is active, it is within 0..25, and within 0..6 while a curve
\* started crouching is active; an active curve has peak and duration
\* (25, 22) or (6, 8) and an elapsed time below its duration.
C29_HeightInRange ==
    trexgame # None =>
        /\ HeightInRange(trexgame[1].trex)
        /\ HeightInRange(trexgame[1].trex_solution)

\* the ghost is at the top of the high jump, the player at the top of the low one
C29_Witness ==
    /\ trexgame # None
    /\ Height(trexgame[1].trex_solution) = 25
    /\ trexgame[1].trex.jump # None
    /\ trexgame[1].trex.jump[1].max = 6
    /\ Height(trexgame[1].trex) = 6

\* the ghost's high jump is in its last tick, the player has landed from one
C29_WitnessLast ==
    /\ trexgame # None
    /\ trexgame[1].trex_solution.jump # None
    /\ trexgame[1].trex_solution.jump[1].time = 21
    /\ trexgame[1].trex.jump = None
    /\ trexgame[1].frame_count >= 23

\* C30: every Keys the generator returns has at most one key held and its
\* just-pressed mask within its held mask; and a key held before a next() is
\* held after it, alone and no longer just pressed, unless that next() ran
\* the LowFreq arm and released all keys.
C30_OneKeyHeld ==
    /\ [](solgen # None =>
            /\ BitCount(solgen[1].keys.pressing) <= 1
            /\ BitAnd(solgen[1].keys.just_pressed, solgen[1].keys.pressing)
                  = solgen[1].keys.just_pressed)
    /\ [][ solgen[1].keys.pressing # 0 =>
              \/ /\ solgen'[1].keys.pressing = solgen[1].keys.pressing
                 /\ solgen'[1].keys.just_pressed = 0
              \/ /\ solgen'[1].keys = Keys_new
                 /\ solgen'[1].phase = "LowFreq"
         ]_vars

\* a key pressed in the LowFreq phase is still held, alone, in a HighFreq phase
C30_Witness ==
    /\ solgen # None
    /\ solgen[1].phase = "HighFreq"
    /\ solgen[1].phase_time_left < 50
    /\ solgen[1].keys.pressing = Key_mask(Key_Space)
    /\ solgen[1].keys.just_pressed = 0

====
